---- MODULE Spec2Model ----
(***************************************************************************)
(* azure-entities: the entity runtime (create / load / reload / remove /   *)
(* modify with optimistic concurrency) over the in-memory table backend.   *)
(*                                                                         *)
(* An ETag of the in-memory backend is a hash of the record's columns      *)
(* without its odata.* metadata; the hash is modelled by the tuple of the  *)
(* hashed columns (two records have the same ETag iff they have the same   *)
(* columns).  The property values the callers use are drawn from the       *)
(* empty string and strings of letters, which encodeURIComponent leaves    *)
(* as they are.                                                            *)
(***************************************************************************)
EXTENDS Integers, Sequences, FiniteSets, TLC

\* ---------------------------------------------------------------- bounds
NumInst  == 2       \* entity instances held by the callers
MaxOps   == 4       \* calls the callers make in one run
MaxRacers == 3      \* racing instances whose calls interleave freely
MaxVersion == 3     \* the longest chain of configure calls a definer makes
MaxReads == 3       \* calls the reader of the signed classes makes in one run
MaxKeyLen == 2      \* the longest key a continuation token is made from

\* ------------------------------------------------------ program constants
MAX_MODIFY_ATTEMPTS == 10
CurrentVersion      == 2    \* __version of the class that has been set up

Inst == 1..NumInst

\* property values the callers use
Ids     == {"a", ""}         \* `id`   (partition key property)
Names   == {"n", "m"}        \* `name` (row key property)

CreateIds    == {"a"}
CreateNames  == {"n"}
CreateCounts == {0, 1}

NoProps == [id |-> "", name |-> "", count |-> 0, reason |-> "none"]

\* ------------------------------------------------------------ key builders
\* the empty string becomes '~'; letters are left as they are
encodeStringKey(str) == IF str = "" THEN "~" ELSE str

PartitionKeyExact(properties) == encodeStringKey(properties.id)
RowKeyExact(properties)       == encodeStringKey(properties.name)

\* ------------------------------------------------------- in-memory backend
\* the characters of a key: the keys of this model are empty, one character
\* long, or one of the two-character keys that hold a '!'
Chars(key) ==
  CASE key = ""   -> <<>>
    [] key = "a!" -> <<"a", "!">>
    [] key = "!n" -> <<"!", "n">>
    [] OTHER      -> <<key>>

\* key.replace(/!/g, '!!') on the characters of a key
RECURSIVE Doubled(_)
Doubled(chars) ==
  IF chars = <<>> THEN <<>>
  ELSE (IF Head(chars) = "!" THEN <<"!", "!">> ELSE <<Head(chars)>>)
       \o Doubled(Tail(chars))

\* the slot of a record, as the characters of the string makeKey returns
makeKey(partitionKey, rowKey) ==
  Doubled(Chars(partitionKey)) \o <<"!">> \o Doubled(Chars(rowKey))

PKeys == {encodeStringKey(i) : i \in Ids}
RKeys == {encodeStringKey(n) : n \in Names}
Slots == {makeKey(pk, rk) : pk \in PKeys, rk \in RKeys}

\* a stored record; Version = 0 stands for "no record in this slot",
\* Timestamp = 0 for "no Timestamp column", reason = "none" for "no reason column"
\* and Signature = NoSignature for "no Signature column"
NoSignature == <<>>
NoRec == [PartitionKey |-> "", RowKey |-> "", Version |-> 0, Timestamp |-> 0,
          id |-> "", name |-> "", count |-> 0, reason |-> "none",
          Signature |-> NoSignature]

entityEtag(entity) ==
  <<entity.PartitionKey, entity.RowKey, entity.Version, entity.Timestamp,
    entity.id, entity.name, entity.count, entity.reason, entity.Signature>>

NullTag == <<>>         \* options.eTag null / absent
StarTag == <<"*">>      \* options.eTag '*'

makeError(statusCode, code) == [statusCode |-> statusCode, code |-> code]
NoError == makeError(0, "")

\* the answer of one backend call, with the table state it leaves
Answer(ok, err, etag, entity, st, t, tex) ==
  [ok |-> ok, err |-> err, etag |-> etag, entity |-> entity,
   store |-> st, ts |-> t, tableExists |-> tex]

Reject(err, st, t, tex) == Answer(FALSE, err, NullTag, NoRec, st, t, tex)

\* a createTable that makes the table anew when it is already there
createTableAnew(st, t, tex) ==
  Answer(TRUE, NoError, NullTag, NoRec, [s \in Slots |-> NoRec], t, TRUE)

createTable(st, t, tex) ==
  IF tex THEN Reject(makeError(409, "TableAlreadyExists"), st, t, tex)
  ELSE Answer(TRUE, NoError, NullTag, NoRec, [s \in Slots |-> NoRec], t, TRUE)

deleteTable(st, t, tex) ==
  IF ~tex THEN Reject(makeError(404, "ResourceNotFound"), st, t, tex)
  ELSE Answer(TRUE, NoError, NullTag, NoRec, [s \in Slots |-> NoRec], t, FALSE)

\* a lookup that answers a missing record with an empty entity
getEntityLenient(st, t, tex, partitionKey, rowKey) ==
  LET key == makeKey(partitionKey, rowKey) IN
  IF ~tex THEN Reject(makeError(404, "ResourceNotFound"), st, t, tex)
  ELSE Answer(TRUE, NoError, entityEtag(st[key]), st[key], st, t, tex)

getEntity(st, t, tex, partitionKey, rowKey) ==
  LET key == makeKey(partitionKey, rowKey) IN
  IF ~tex THEN Reject(makeError(404, "ResourceNotFound"), st, t, tex)
  ELSE IF st[key] # NoRec
       THEN Answer(TRUE, NoError, entityEtag(st[key]), st[key], st, t, tex)
       ELSE Reject(makeError(404, "ResourceNotFound"), st, t, tex)

\* an insert that does not look for an existing record
insertEntityBlind(st, t, tex, entity) ==
  LET key    == makeKey(entity.PartitionKey, entity.RowKey)
      stored == [entity EXCEPT !.Timestamp = t]
  IN
  IF ~tex THEN Reject(makeError(404, "ResourceNotFound"), st, t, tex)
  ELSE Answer(TRUE, NoError, entityEtag(stored), stored,
              [st EXCEPT ![key] = stored], t + 1, tex)

insertEntity(st, t, tex, entity) ==
  LET key    == makeKey(entity.PartitionKey, entity.RowKey)
      stored == [entity EXCEPT !.Timestamp = t]
  IN
  IF ~tex THEN Reject(makeError(404, "ResourceNotFound"), st, t, tex)
  ELSE IF st[key] # NoRec
       THEN Reject(makeError(409, "EntityAlreadyExists"), st, t, tex)
       ELSE Answer(TRUE, NoError, entityEtag(stored), stored,
                   [st EXCEPT ![key] = stored], t + 1, tex)

\* the columns of `entity` named in `cols` written over `existing`
MergeInto(existing, entity, cols) ==
  [c \in DOMAIN existing |-> IF c \in cols THEN entity[c] ELSE existing[c]]

\* `entity` carries the columns `cols`; every other column is absent
OnlyCols(entity, cols) ==
  [c \in DOMAIN NoRec |-> IF c \in cols THEN entity[c] ELSE NoRec[c]]

updateEntity(st, t, tex, entity, cols, mode, eTag) ==
  LET key      == makeKey(entity.PartitionKey, entity.RowKey)
      sent     == OnlyCols(entity, cols)
      replaced == IF mode = "replace" THEN sent ELSE MergeInto(st[key], entity, cols)
  IN
  IF ~tex THEN Reject(makeError(404, "ResourceNotFound"), st, t, tex)
  ELSE IF st[key] # NoRec
       THEN IF eTag # StarTag /\ eTag # NullTag /\ eTag # entityEtag(st[key])
            THEN Reject(makeError(412, "UpdateConditionNotSatisfied"), st, t, tex)
            ELSE Answer(TRUE, NoError, entityEtag(replaced), replaced,
                        [st EXCEPT ![key] = replaced], t, tex)
       ELSE IF eTag = NullTag
            THEN Answer(TRUE, NoError, entityEtag(sent), sent,
                        [st EXCEPT ![key] = sent], t, tex)
            ELSE IF eTag # StarTag
                 THEN Reject(makeError(404, "ResourceNotFound"), st, t, tex)
                 ELSE Answer(TRUE, NoError, entityEtag(sent), sent, st, t, tex)

\* a delete that does not compare ETags
deleteEntityUnconditional(st, t, tex, partitionKey, rowKey, eTag) ==
  LET key == makeKey(partitionKey, rowKey) IN
  IF ~tex THEN Reject(makeError(404, "ResourceNotFound"), st, t, tex)
  ELSE IF st[key] = NoRec
       THEN Reject(makeError(404, "ResourceNotFound"), st, t, tex)
       ELSE Answer(TRUE, NoError, NullTag, NoRec,
                   [st EXCEPT ![key] = NoRec], t, tex)

deleteEntity(st, t, tex, partitionKey, rowKey, eTag) ==
  LET key == makeKey(partitionKey, rowKey) IN
  IF ~tex THEN Reject(makeError(404, "ResourceNotFound"), st, t, tex)
  ELSE IF st[key] = NoRec
       THEN Reject(makeError(404, "ResourceNotFound"), st, t, tex)
       ELSE IF eTag # StarTag /\ eTag # entityEtag(st[key])
            THEN Reject(makeError(412, "UpdateConditionNotSatisfied"), st, t, tex)
            ELSE Answer(TRUE, NoError, NullTag, NoRec,
                        [st EXCEPT ![key] = NoRec], t, tex)

\* a transport failure (timeout, connection error) of the wrapped client: the
\* call is rejected and the table is left as it was
Aux(fault, answer, st, t, tex) ==
  IF fault THEN Reject(makeError(0, "RequestTimeout"), st, t, tex) ELSE answer

\* ---------------------------------------------------------- schema (configure)
\* version 1 declares id, name, count; version 2 adds reason and migrates
Mapping(version) ==
  IF version >= 2 THEN {"id", "name", "count", "reason"} ELSE {"id", "name", "count"}

KeyCols == {"PartitionKey", "RowKey"}

migrate(properties) == [properties EXCEPT !.reason = "no-reason"]

serialize(properties, version) ==
  [PartitionKey |-> PartitionKeyExact(properties),
   RowKey       |-> RowKeyExact(properties),
   Version      |-> version,
   Timestamp    |-> 0,
   id           |-> properties.id,
   name         |-> properties.name,
   count        |-> properties.count,
   reason       |-> IF "reason" \in Mapping(version) THEN properties.reason ELSE "none",
   Signature    |-> NoSignature]

SerializedCols(version) == KeyCols \cup {"Version"} \cup Mapping(version)

deserializeV1(entity) ==
  [id |-> entity.id, name |-> entity.name, count |-> entity.count, reason |-> "none"]

deserialize(entity) ==
  IF entity.Version < CurrentVersion
  THEN migrate(deserializeV1(entity))
  ELSE [id |-> entity.id, name |-> entity.name, count |-> entity.count,
        reason |-> entity.reason]

\* ------------------------------------------------------------ entity instance
NoInst == [loaded |-> FALSE, partitionKey |-> "", rowKey |-> "", version |-> 0,
           properties |-> NoProps, etag |-> NullTag]

\* new Class(entity), entity carrying 'odata.etag'
Entity(entity, etag) ==
  [loaded       |-> TRUE,
   partitionKey |-> entity.PartitionKey,
   rowKey       |-> entity.RowKey,
   version      |-> entity.Version,
   properties   |-> deserialize(entity),
   etag         |-> etag]

\* ------------------------------------------------------------------ modifiers
Modifiers == {"inc", "reset", "noop", "setId", "setName", "reject", "throw", "replace"}

Modify(modifier, properties) ==
  CASE modifier = "inc"     -> [properties EXCEPT !.count = @ + 1]
    [] modifier = "reset"   -> [properties EXCEPT !.count = 0]
    [] modifier = "noop"    -> [properties EXCEPT !.count = properties.count]
    [] modifier = "setId"   -> [properties EXCEPT !.id = CHOOSE x \in Ids : x # @]
    [] modifier = "setName" -> [properties EXCEPT !.name = CHOOSE x \in Names : x # @]
    [] modifier = "replace" -> properties
    [] OTHER                -> [properties EXCEPT !.reason = "dirty"]

\* ------------------------------------------------- Entity.configure / setup
\* a JavaScript value an option can hold, with what typeof says of it
Undefined   == [type |-> "undefined", value |-> ""]
Str(value)  == [type |-> "string", value |-> value]
Bool(value) == [type |-> "boolean", value |-> IF value THEN "true" ELSE "false"]
typeof(x)   == x.type
\* !x is false
Truthy(x)   == x.type # "undefined" /\ x.value \notin {"", "false"}

RESERVED_PROPERTY_NAMES ==
  {"PartitionKey", "RowKey", "Timestamp", "Version", "Signature", "version",
   "modify", "remove"}

\* options.properties: property name -> Type, "undefined" for a name not declared
PropertyNames == {"id", "name", "count", "reason", "id2"}
Declare(types) ==
  [p \in PropertyNames |-> IF p \in DOMAIN types THEN types[p] ELSE "undefined"]
NoProperties == Declare(<<>>)
Declared(properties) == {p \in PropertyNames : properties[p] # "undefined"}

\* Entity.types.EncryptedJSON and its kin carry isEncrypted
isEncrypted(Type) == Type = "EncryptedJSON"

\* Entity.keys.StringKey(key), and an option that is not given
StringKey(key) == [builder |-> "StringKey", key |-> key]
NoKey          == [builder |-> "undefined", key |-> ""]
\* definition(mapping) returns a key builder: new StringKey(mapping, key)
\* asserts that the mapping defines the key, and no definition cannot be called
KeyConstructs(definition, mapping) ==
  definition # NoKey /\ mapping[definition.key] # "undefined"
covers(definition) == {definition.key}

\* Buffer.from(str, 'base64').length for a text of base64 digits without padding
base64Length(str) == (Len(str) * 3) \div 4

\* Entity.prototype as the module leaves it: nothing configured, nothing set up
EntityPrototype ==
  [__version                    |-> 0,
   __context                    |-> {},
   __mapping                    |-> NoProperties,
   __partitionKeyDefinition     |-> NoKey,
   __rowKeyDefinition           |-> NoKey,
   __lockedPropertiesDefinition |-> NoProperties,
   __hasSigning                 |-> FALSE,
   __hasEncrypted               |-> FALSE,
   __sign                       |-> FALSE,
   __deserialize                |-> <<>>,
   __table                      |-> Undefined,
   __client                     |-> Undefined,
   __aux                        |-> Undefined,
   __filterBuilder              |-> Undefined,
   __signingKey                 |-> Undefined,
   __cryptoKey                  |-> Undefined,
   context                      |-> {}]

\* what a call of configure or setup gives: the new class, or what it threw
Returns(class) == [threw |-> "", class |-> class]
Throws(message) == [threw |-> message, class |-> EntityPrototype]

\* a version check that lets a version skip ahead
VersionGrows(version, parentVersion) == version > parentVersion
\* options.version === subClass.prototype.__version + 1
VersionFollows(version, parentVersion) == version = parentVersion + 1

\* a lock that looks only at the names of the key-covering properties
LockedKeptByName(locked, properties) ==
  \A p \in Declared(locked) : properties[p] # "undefined"
\* every locked property is declared with the Type version 1 gave it
LockedKept(locked, properties) ==
  \A p \in Declared(locked) : properties[p] = locked[p]

\* a check that takes an absent signEntities for false
SignEntitiesDefaulted(hasSigning, signEntities) == TRUE
\* !this.prototype.__hasSigning || typeof options.signEntities === 'boolean'
SignEntitiesExplicit(hasSigning, signEntities) ==
  ~hasSigning \/ typeof(signEntities) = "boolean"

\* a context that adds the keys of this version to those of the parent
ContextExtended(parentContext, context) == parentContext \cup context
\* subClass.prototype.__context = options.context.slice()
ContextDeclared(parentContext, context) == context

\* a check that finds no class set up
IsSetupNever(class) == FALSE
\* __client, __aux, __filterBuilder or __table is defined
IsSetup(class) ==
  \/ class.__client # Undefined
  \/ class.__aux # Undefined
  \/ class.__filterBuilder # Undefined
  \/ class.__table # Undefined

\* Entity.configure called on the class Parent
configure(Parent, options) ==
  LET signEntities == IF options.signEntities = Undefined THEN Bool(FALSE)
                      ELSE options.signEntities
      mapping      == options.properties
      partitionKeyDefinition ==
        IF options.version = 1 THEN options.partitionKey
        ELSE Parent.__partitionKeyDefinition
      rowKeyDefinition ==
        IF options.version = 1 THEN options.rowKey ELSE Parent.__rowKeyDefinition
      lockedProperties ==
        IF options.version = 1
        THEN Declare([p \in covers(partitionKeyDefinition) \cup covers(rowKeyDefinition)
                        |-> options.properties[p]])
        ELSE Parent.__lockedPropertiesDefinition
      hasEncrypted == \E p \in Declared(mapping) : isEncrypted(mapping[p])
      sign         == signEntities = Bool(TRUE)
  IN
  IF ~SignEntitiesExplicit(Parent.__hasSigning, options.signEntities)
  THEN Throws("newer versions MUST specify signEntities explicitly")
  ELSE IF \E key \in options.context :
            key \in RESERVED_PROPERTY_NAMES \/ key \in Declared(options.properties)
  THEN Throws("context key is reserved or a property")
  ELSE IF IsSetup(Parent)
  THEN Throws("This Entity subclass is already setup!")
  ELSE IF ~VersionFollows(options.version, Parent.__version)
  THEN Throws("version must be incremented by 1 (and only 1)")
  ELSE IF options.version = 1 /\ (options.partitionKey = NoKey \/ options.rowKey = NoKey)
  THEN Throws("partitionKey and rowKey are required in version 1")
  ELSE IF options.version # 1 /\ (options.partitionKey # NoKey \/ options.rowKey # NoKey)
  THEN Throws("You can't redefine the partitionKey or the rowKey")
  ELSE IF \/ ~KeyConstructs(partitionKeyDefinition, mapping)
          \/ ~KeyConstructs(rowKeyDefinition, mapping)
  THEN Throws("key is not defined in mapping")
  ELSE IF options.version > 1 /\ ~LockedKept(lockedProperties, options.properties)
  THEN Throws("Type of property referenced in partition/row key cannot be changed")
  ELSE IF options.version # 1 /\ options.migrate = "undefined"
  THEN Throws("migrate must be specified for version > 1")
  ELSE Returns(
    [Parent EXCEPT
       !.__context                    = ContextDeclared(Parent.__context, options.context),
       !.__mapping                    = mapping,
       !.__partitionKeyDefinition     = partitionKeyDefinition,
       !.__rowKeyDefinition           = rowKeyDefinition,
       !.__lockedPropertiesDefinition = lockedProperties,
       !.__hasEncrypted               = Parent.__hasEncrypted \/ hasEncrypted,
       !.__sign                       = sign,
       !.__hasSigning                 = Parent.__hasSigning \/ sign,
       !.__deserialize                = Append(Parent.__deserialize,
                                               [mapping |-> mapping, sign |-> sign,
                                                migrate |-> options.migrate]),
       !.__version                    = options.version])

\* typeof options.signingKey === 'string'
SigningKeyIsString(signingKey) == typeof(signingKey) = "string"

\* a check of the cryptoKey that does not measure the decoded key
CryptoKeyIsString(cryptoKey) == typeof(cryptoKey) = "string"
\* typeof options.cryptoKey === 'string' and the decoded secret is 32 bytes long
CryptoKeyFits(cryptoKey) ==
  typeof(cryptoKey) = "string" /\ base64Length(cryptoKey.value) = 32

\* every declared key is given and every given key is declared
ContextMatches(declared, context) ==
  /\ \A key \in declared : key \in context
  /\ \A key \in context : key \in declared

\* Entity.setup called on the class Parent
setup(Parent, options) ==
  IF Parent.__version = 0
  THEN Throws("Must be configured first, see Entity.configure")
  ELSE IF IsSetup(Parent) \/ Parent.__signingKey # Undefined
  THEN Throws("This Entity subclass is already setup!")
  ELSE IF ~ContextMatches(Parent.__context, options.context)
  THEN Throws("context key must be specified, or was not declared")
  ELSE IF Parent.__hasEncrypted /\ ~CryptoKeyFits(options.cryptoKey)
  THEN Throws("cryptoKey is required and must be 32 bytes in base64")
  ELSE IF ~Parent.__hasEncrypted /\ Truthy(options.cryptoKey)
  THEN Throws("Don't specify options.cryptoKey")
  ELSE IF Parent.__hasSigning /\ ~SigningKeyIsString(options.signingKey)
  THEN Throws("signingKey is required")
  ELSE IF ~Parent.__hasSigning /\ Truthy(options.signingKey)
  THEN Throws("Don't specify options.signingKey")
  ELSE Returns(
    [Parent EXCEPT
       !.context        = options.context,
       !.__cryptoKey    = IF Parent.__hasEncrypted THEN options.cryptoKey ELSE Undefined,
       !.__signingKey   = IF Parent.__hasSigning THEN options.signingKey ELSE Undefined,
       !.__table        = options.tableName,
       !.__filterBuilder = Str("appendFilter"),
       !.__aux          = Str(options.credentials),
       !.__client       = Str(options.credentials)])

\* ---- the calls a definer makes on the class it holds
\* the property declarations of the tests: ItemV1 and ItemV2 of
\* create_load_test.js, and the changes migration_definition_test.js and
\* encryptedprops_test.js make to them
ItemV1Properties == Declare([id |-> "String", name |-> "String", count |-> "Number"])
ItemV2Properties ==
  Declare([id |-> "String", name |-> "String", count |-> "Number", reason |-> "String"])
RenamedProperties   == Declare([id2 |-> "String", name |-> "String", count |-> "Number"])
RetypedProperties   == Declare([id |-> "Number", name |-> "String", count |-> "Number"])
EncryptedProperties ==
  Declare([id |-> "String", name |-> "String", count |-> "EncryptedJSON"])
PropertySets ==
  {ItemV1Properties, ItemV2Properties, RenamedProperties, RetypedProperties,
   EncryptedProperties}

ContextLists == {{}, {"maxCount"}, {"config", "maxCount"}}
SignEntities == {Undefined, Bool(TRUE), Bool(FALSE)}
Migrations   == {"undefined", "addReason", "dropReason"}

\* the options the tests pass for schema version `version`: the keys in the
\* first version only, a migration in every later one
BaseOptions(version) ==
  [version      |-> version,
   signEntities |-> Undefined,
   context      |-> {},
   properties   |-> IF version % 2 = 0 THEN ItemV2Properties ELSE ItemV1Properties,
   partitionKey |-> IF version = 1 THEN StringKey("id") ELSE NoKey,
   rowKey       |-> IF version = 1 THEN StringKey("name") ELSE NoKey,
   migrate      |-> IF version = 1 THEN "undefined"
                    ELSE IF version % 2 = 0 THEN "addReason" ELSE "dropReason"]

\* those options, and each way of changing one part of them
ConfigureOptions ==
  UNION {
    LET base == BaseOptions(version) IN
      {[base EXCEPT !.signEntities = s, !.context = c] :
          s \in SignEntities, c \in ContextLists}
      \cup {[base EXCEPT !.properties = d] : d \in PropertySets}
      \cup {[base EXCEPT !.partitionKey = k] : k \in {NoKey, StringKey("id")}}
      \cup {[base EXCEPT !.rowKey = k] : k \in {NoKey, StringKey("count")}}
      \cup {[base EXCEPT !.migrate = m] : m \in Migrations}
      \cup {[base EXCEPT !.context = {"count"}]}
    : version \in 1..MaxVersion }

\* the ENCRYPTION_KEY of encryptedprops_test.js without its padding, and keys
\* one base64 digit shorter and longer
ENCRYPTION_KEY == "gRT3AtCOwtZOP4xI6ESB4vPC3unDXqKq8VolcnDISPE"
CryptoKeys ==
  {Undefined, Str(""), Str("gRT3AtCOwtZOP4xI6ESB4vPC3unDXqKq8VolcnDISP"),
   Str(ENCRYPTION_KEY), Str("gRT3AtCOwtZOP4xI6ESB4vPC3unDXqKq8VolcnDISPEA")}
SigningKeys == {Undefined, Str(""), Str("no-way-you-can-guess-this")}

SetupOptions ==
  [tableName   : {Str("items")},
   credentials : {"inMemory", "azure"},
   context     : ContextLists,
   cryptoKey   : CryptoKeys,
   signingKey  : SigningKeys]

NoCall == [op |-> "none", Parent |-> EntityPrototype, options |-> <<>>, threw |-> "",
           kept |-> EntityPrototype, on |-> "held"]

\* the classes of create_load_test.js: two versions, the second one set up
ItemV1 == configure(EntityPrototype, BaseOptions(1)).class
ItemV2 == configure(ItemV1, BaseOptions(2)).class
Item2 ==
  setup(ItemV2, [tableName |-> Str("items"), credentials |-> "inMemory", context |-> {},
                 cryptoKey |-> Undefined, signingKey |-> Undefined]).class

\* ------------------------------------------- reading through the versions
\* sign(properties) of a version with signEntities: the HMAC under
\* this.__signingKey of the mapped properties; two signatures are equal only
\* when the keys, the mapped names and the values are
sign(this, mapping, properties) ==
  <<this.__signingKey.value, properties.id, properties.name, properties.count,
    IF mapping["reason"] # "undefined" THEN properties.reason ELSE "none">>

\* a comparison that looks at the lengths of the buffers only
fixedTimeComparisonOfLength(b1, b2) == Len(b1) = Len(b2)

fixedTimeComparison(b1, b2) ==
  /\ Len(b1) = Len(b2)
  /\ \A i \in 1..Len(b1) : b1[i] = b2[i]

\* type.deserialize(entity, cryptoKey) for every property of the mapping
Deserialized(mapping, entity) ==
  [id     |-> entity.id,
   name   |-> entity.name,
   count  |-> entity.count,
   reason |-> IF mapping["reason"] # "undefined" THEN entity.reason ELSE "none"]

\* options.migrate of the tests: version 2 adds reason, version 3 drops it
Migrate(migration, item) ==
  CASE migration = "addReason"  ->
         [id |-> item.id, name |-> item.name, count |-> item.count,
          reason |-> "no-reason"]
    [] migration = "dropReason" ->
         [id |-> item.id, name |-> item.name, count |-> item.count, reason |-> "none"]
    [] OTHER -> item

\* what __deserialize gives: the properties and the versions whose migrate ran
\* to make them, or what it threw
Properties(properties, migrated) ==
  [threw |-> "", properties |-> properties, migrated |-> migrated]
Thrown(message) == [threw |-> message, properties |-> NoProps, migrated |-> <<>>]

\* a test that sends only the records of the version before to the migration
IsPrevious(entityVersion, version) == entityVersion = version - 1
\* entity.Version < options.version
IsOlder(entityVersion, version) == entityVersion < version

\* the __deserialize that configure defined for `version`, called on an
\* instance of the class `this`
RECURSIVE __deserialize(_, _, _)
__deserialize(this, version, entity) ==
  LET closure == this.__deserialize[version]
      properties == Deserialized(closure.mapping, entity)
  IN
  IF entity.Version > version
  THEN Thrown("entity.Version is greater than configured version!")
  ELSE IF version > 1 /\ IsOlder(entity.Version, version)
  THEN LET old == __deserialize(this, version - 1, entity) IN
       IF old.threw # "" THEN old
       ELSE Properties(Migrate(closure.migrate, old.properties),
                       Append(old.migrated, version))
  ELSE IF closure.sign /\
          ~fixedTimeComparison(entity.Signature,
                               sign(this, closure.mapping, properties))
  THEN Thrown("Signature validation failed!")
  ELSE Properties(properties, <<>>)

\* this.__serialize(properties)
__serialize(this, properties) ==
  [PartitionKey |-> PartitionKeyExact(properties),
   RowKey       |-> RowKeyExact(properties),
   Version      |-> this.__version,
   Timestamp    |-> 0,
   id           |-> properties.id,
   name         |-> properties.name,
   count        |-> properties.count,
   reason       |-> IF this.__mapping["reason"] # "undefined" THEN properties.reason
                    ELSE "none",
   Signature    |-> IF this.__sign THEN sign(this, this.__mapping, properties)
                    ELSE NoSignature]

\* the columns __serialize writes
Serialized(this) ==
  KeyCols \cup {"Version"}
    \cup (Declared(this.__mapping) \cap {"id", "name", "count", "reason"})
    \cup (IF this.__sign THEN {"Signature"} ELSE {})

\* entityChanges['Signature'] = self.__sign(self._properties): the Signature
\* column a class with a sign method adds to what it sends, computed over the
\* whole property bag of the instance
WithSignature(this, entity, properties) ==
  IF this.__sign
  THEN [entity EXCEPT !.Signature = sign(this, this.__mapping, properties)]
  ELSE entity
SignatureCols(this) == IF this.__sign THEN {"Signature"} ELSE {}

\* the classes of signentities_test.js: version 1 signs its entities, version 2
\* does not, version 3 signs them again; each set up with a signing key
SignedOptions(version) ==
  [BaseOptions(version) EXCEPT !.signEntities = Bool(version % 2 = 1)]
RECURSIVE SignedItemV(_)
SignedItemV(version) ==
  IF version = 0 THEN EntityPrototype
  ELSE configure(SignedItemV(version - 1), SignedOptions(version)).class
ReadSigningKeys == {Str("no-way-you-can-guess-this"), Str("wrong-secret")}
SignedItem(version, signingKey) ==
  setup(SignedItemV(version),
        [tableName |-> Str("items"), credentials |-> "inMemory", context |-> {},
         cryptoKey |-> Undefined, signingKey |-> signingKey]).class
\* the names the reader has for those classes, and the class behind each name
SignedItems == (1..MaxVersion) \X ReadSigningKeys
NoClass     == <<0, Undefined>>
Classes ==
  {<<c, SignedItem(c[1], c[2])>> : c \in SignedItems} \cup {<<NoClass, EntityPrototype>>}
ClassOf(class) == (CHOOSE c \in Classes : c[1] = class)[2]

\* new Class(entity) for the set-up class named `class`
NoItem == [loaded |-> FALSE, Class |-> NoClass, _partitionKey |-> "",
           _rowKey |-> "", _version |-> 0, _properties |-> NoProps,
           _etag |-> NullTag]
New(class, entity, etag) ==
  LET this == ClassOf(class)
      d == __deserialize(this, this.__version, entity)
  IN
  [threw |-> d.threw,
   migrated |-> d.migrated,
   item |-> IF d.threw # "" THEN NoItem
            ELSE [loaded |-> TRUE, Class |-> class,
                  _partitionKey |-> entity.PartitionKey, _rowKey |-> entity.RowKey,
                  _version |-> entity.Version, _properties |-> d.properties,
                  _etag |-> etag]]

\* how a call of the reader settled; nothing before its first call
NoGot == [op |-> "none", Class |-> NoClass, state |-> "none", err |-> "",
          entity |-> NoRec, migrated |-> <<>>, entries |-> {}]

\* ------------------------------------------------------ continuation tokens
\* a JavaScript string as the sequence of its characters; the characters the
\* keys and tokens of this model are made of: a letter, the tilde, the percent
\* sign, a character encodeURIComponent escapes, and the digits of the escapes
KeyChars == {"a", "~", "%", "/"}
Absent   == <<"undefined">>        \* undefined, where a string may be missing
Null     == <<"null">>             \* null

RECURSIVE StringsOfLength(_)
StringsOfLength(n) ==
  IF n = 0 THEN {<<>>}
  ELSE {Append(s, c) : s \in StringsOfLength(n - 1), c \in KeyChars}
RECURSIVE StringsUpTo(_)
StringsUpTo(n) == IF n = 0 THEN {<<>>} ELSE StringsUpTo(n - 1) \cup StringsOfLength(n)

RECURSIVE Concat(_)
Concat(strs) == IF strs = <<>> THEN <<>> ELSE Head(strs) \o Concat(Tail(strs))

\* encodeURIComponent: '%' and '/' are escaped, a letter and '~' are not
encodeURIComponent(str) ==
  Concat([i \in 1..Len(str) |->
            CASE str[i] = "%" -> <<"%", "2", "5">>
              [] str[i] = "/" -> <<"%", "2", "F">>
              [] OTHER        -> <<str[i]>>])
\* encodeURIComponent(str).replace(/~/g, '%7e')
encodeTilde(str) ==
  Concat([i \in 1..Len(str) |->
            IF str[i] = "~" THEN <<"%", "7", "e">> ELSE <<str[i]>>])

\* the character a percent escape stands for; hexadecimal digits of either case
Escapes ==
  {<<<<"2", "5">>, "%">>, <<<<"2", "F">>, "/">>, <<<<"2", "f">>, "/">>,
   <<<<"7", "E">>, "~">>, <<<<"7", "e">>, "~">>}
URIError == <<"URIError">>
RECURSIVE decodeURIComponent(_)
decodeURIComponent(str) ==
  IF str = <<>> THEN <<>>
  ELSE IF Head(str) # "%"
  THEN LET rest == decodeURIComponent(Tail(str)) IN
       IF rest = URIError THEN URIError ELSE <<Head(str)>> \o rest
  ELSE IF Len(str) < 3 \/ ~\E e \in Escapes : e[1] = <<str[2], str[3]>>
  THEN URIError
  ELSE LET rest == decodeURIComponent(SubSeq(str, 4, Len(str))) IN
       IF rest = URIError THEN URIError
       ELSE <<(CHOOSE e \in Escapes : e[1] = <<str[2], str[3]>>)[2]>> \o rest

\* token.split('~')
RECURSIVE split(_)
split(str) ==
  IF \A i \in 1..Len(str) : str[i] # "~" THEN <<str>>
  ELSE LET at == CHOOSE i \in 1..Len(str) :
                   str[i] = "~" /\ \A j \in 1..(i - 1) : str[j] # "~"
       IN <<SubSeq(str, 1, at - 1)>> \o split(SubSeq(str, at + 1, Len(str)))

\* Entity.continuationTokenPattern
TokenClass == {"a", "2", "5", "7", "e", "E", "F", "f", "%"}
continuationTokenPattern(token) ==
  \E at \in 1..Len(token) :
    /\ token[at] = "~"
    /\ \A i \in (1..Len(token)) \ {at} : token[i] \in TokenClass

\* !x for a string that may be missing
Falsy(str) == str = Absent \/ str = Null \/ str = <<>>
OrEmpty(str) == IF Falsy(str) THEN <<>> ELSE str

\* an encoder that joins the keys as they are
encodeContinuationTokenPlain(result) ==
  IF Falsy(result.nextPartitionKey) /\ Falsy(result.nextRowKey) THEN Null
  ELSE OrEmpty(result.nextPartitionKey) \o <<"~">> \o OrEmpty(result.nextRowKey)

encodeContinuationToken(result) ==
  IF Falsy(result.nextPartitionKey) /\ Falsy(result.nextRowKey) THEN Null
  ELSE encodeTilde(encodeURIComponent(OrEmpty(result.nextPartitionKey)))
         \o <<"~">> \o
       encodeTilde(encodeURIComponent(OrEmpty(result.nextRowKey)))

\* what decodeContinuationToken gives, or what it threw
NextKeys(nextPartitionKey, nextRowKey) ==
  [threw |-> "", nextPartitionKey |-> nextPartitionKey, nextRowKey |-> nextRowKey]
decodeContinuationToken(token) ==
  IF token = Absent \/ token = Null THEN NextKeys(Absent, Absent)
  ELSE IF Len(split(token)) # 2
  THEN [threw |-> "Expected an encoded continuation token with a single tilde as separator",
        nextPartitionKey |-> Absent, nextRowKey |-> Absent]
  ELSE IF URIError \in {decodeURIComponent(split(token)[1]),
                        decodeURIComponent(split(token)[2])}
  THEN [threw |-> "URIError", nextPartitionKey |-> Absent, nextRowKey |-> Absent]
  ELSE NextKeys(decodeURIComponent(split(token)[1]),
                decodeURIComponent(split(token)[2]))

\* the token a caller made and what decoding it gave; nothing before
NotDecoded == [threw |-> "not decoded", nextPartitionKey |-> Absent, nextRowKey |-> Absent]
NoTok == [result |-> NextKeys(Absent, Absent), token |-> Null, decoded |-> NotDecoded]

\* ---------------------------------------------------------- scan and query
\* a condition on a property: a literal, or an Entity.op of an operator and an
\* operand; no condition on a text property and on a number property
Literal(operand)          == [operator |-> "literal", operand |-> operand]
Op(operator, operand)     == [operator |-> operator, operand |-> operand]
NoCondition               == [operator |-> "undefined", operand |-> ""]
NoNumberCondition         == [operator |-> "undefined", operand |-> 0]
NoConditions ==
  [id |-> NoCondition, name |-> NoCondition, count |-> NoNumberCondition]

\* if (!(op instanceof Entity.op)) op = Entity.op.equal(op)
AsOp(condition) ==
  IF condition.operator = "literal" THEN Op("==", condition.operand) ELSE condition

\* type.compare(entity, op) of the in-memory filter
compare(value, op) ==
  CASE op.operator = "==" -> value = op.operand
    [] op.operator = "!=" -> value # op.operand
    [] op.operator = "<"  -> value < op.operand
    [] OTHER              -> TRUE

\* key.exactFromConditions(conditions): the key, when the condition on the
\* property the key covers is an equality
CanBuildAlways(condition) == TRUE
CanBuild(condition) == AsOp(condition).operator = "=="
exactFromConditions(condition) == encodeStringKey(AsOp(condition).operand)

\* the $filter appendFilter builds: one condition per column, joined by 'and'
NoFilter ==
  [PartitionKey |-> NoCondition, RowKey |-> NoCondition,
   id |-> NoCondition, name |-> NoCondition, count |-> NoNumberCondition]
filterFunctionFor(filter, entity) ==
  /\ compare(entity.PartitionKey, filter.PartitionKey)
  /\ compare(entity.RowKey, filter.RowKey)
  /\ compare(entity.id, filter.id)
  /\ compare(entity.name, filter.name)
  /\ compare(entity.count, filter.count)

\* entities.shift() until the first entity is the one the keys name
ShiftTo(entities, partitionKey, rowKey) ==
  LET named == {i \in 1..Len(entities) :
                  /\ Chars(entities[i].PartitionKey) = partitionKey
                  /\ Chars(entities[i].RowKey) = rowKey}
  IN
  IF named = {} THEN <<>>
  ELSE SubSeq(entities, CHOOSE i \in named : \A j \in named : i <= j, Len(entities))

\* _.values(tables[this.table]): the records in the order their keys were added
values(st, order) == [i \in 1..Len(order) |-> st[order[i]]]

\* the page starts at the entity the continuation names
ResumeAt(entities, nextPartitionKey, nextRowKey) ==
  IF ~Falsy(nextRowKey) \/ ~Falsy(nextPartitionKey)
  THEN ShiftTo(entities, nextPartitionKey, nextRowKey)
  ELSE entities

\* a continuation that names the last entity instead of the next one
LastEntity(entities, top) == entities[Len(entities)]
\* entities[options.top]: the first entity the page leaves out
NextEntity(entities, top) == entities[top + 1]

\* what queryEntities answers
Queried(entities, nextPartitionKey, nextRowKey) ==
  [ok |-> TRUE, err |-> NoError, entities |-> entities,
   nextPartitionKey |-> nextPartitionKey, nextRowKey |-> nextRowKey]
NotQueried(err) ==
  [ok |-> FALSE, err |-> err, entities |-> <<>>,
   nextPartitionKey |-> Absent, nextRowKey |-> Absent]

\* InMemoryWrapper.prototype.queryEntities; top = 0 stands for a top of NaN
queryEntities(st, tex, order, filter, top, nextPartitionKey, nextRowKey) ==
  LET all      == values(st, order)
      filtered == SelectSeq(all, LAMBDA entity : filterFunctionFor(filter, entity))
      entities == ResumeAt(filtered, nextPartitionKey, nextRowKey)
  IN
  IF ~tex THEN NotQueried(makeError(404, "ResourceNotFound"))
  ELSE IF top # 0
  THEN IF Len(entities) > top
       THEN Queried(SubSeq(entities, 1, top),
                    Chars(NextEntity(entities, top).PartitionKey),
                    Chars(NextEntity(entities, top).RowKey))
       ELSE Queried(entities, Absent, Absent)
  ELSE Queried(entities, Absent, Absent)

\* the keys of the table object after a call: a key that is deleted leaves
\* the order, a key that is added goes to its end
RECURSIVE Enumerated(_)
Enumerated(keys) ==
  IF keys = {} THEN <<>>
  ELSE LET k == CHOOSE x \in keys : TRUE IN <<k>> \o Enumerated(keys \ {k})
KeysAfter(order, st) ==
  LET kept == SelectSeq(order, LAMBDA k : st[k] # NoRec) IN
  kept \o Enumerated({k \in DOMAIN st : st[k] # NoRec
                                     /\ \A i \in 1..Len(order) : order[i] # k})

\* options of scan and query; limit 0 stands for a limit that is not given
ScanOptions(matchPartition, matchRow, limit, handler, continuation) ==
  [matchPartition |-> matchPartition, matchRow |-> matchRow, limit |-> limit,
   handler |-> handler, continuation |-> continuation]
NoOptions == ScanOptions("none", "none", 0, FALSE, Absent)

\* a query that leaves matchPartition as the caller gave it
QueryOptionsAsGiven(options) == options
\* _.defaults({matchPartition: 'exact'}, options || {})
QueryOptions(options) == [options EXCEPT !.matchPartition = "exact"]

\* the $filter scan builds from the conditions and the keys it could construct
Filter(conditions, options) ==
  [PartitionKey |-> IF options.matchPartition = "exact"
                    THEN Op("==", exactFromConditions(conditions.id))
                    ELSE NoCondition,
   RowKey       |-> IF options.matchRow = "exact"
                    THEN Op("==", exactFromConditions(conditions.name))
                    ELSE NoCondition,
   id           |-> IF options.matchPartition = "exact" THEN NoCondition
                    ELSE AsOp(conditions.id),
   name         |-> IF options.matchRow = "exact" THEN NoCondition
                    ELSE AsOp(conditions.name),
   count        |-> AsOp(conditions.count)]

\* what the scanner's call has come to.  state: "threw" (scan threw), "fetching"
\* (queryEntities has answered, its .then has not run), "handling" (the
\* handlers of a page are running), "resolved", "rejected"
NoScan ==
  [op |-> "none", conditions |-> NoConditions, given |-> NoOptions,
   options |-> NoOptions, state |-> "none", err |-> "", filter |-> NoFilter,
   data |-> NotQueried(NoError), entries |-> <<>>, continuation |-> Null,
   queries |-> 0, handled |-> <<>>, pending |-> {},
   seen |-> <<>>, written |-> FALSE, stable |-> {}]

\* the most entries scan asks the backend for in one page
MaxTop == 1000

\* Math.min(options.limit, 1000); limit 0 stands for a limit of 0 and for one
\* that is not given, top 0 for the 0 and the NaN they give: both are falsy
Top(limit) ==
  IF limit = 0 THEN 0 ELSE IF limit < MaxTop THEN limit ELSE MaxTop

\* fetchResults(continuation) of the call `s`: the backend is asked for a page
fetchResults(s, st, tex, order, continuation) ==
  LET decoded == decodeContinuationToken(continuation)
      data == queryEntities(st, tex, order, s.filter, Top(s.options.limit),
                            decoded.nextPartitionKey, decoded.nextRowKey)
  IN
  IF decoded.threw # ""
  THEN [s EXCEPT !.state = "threw", !.err = decoded.threw]
  ELSE [s EXCEPT !.state = "fetching", !.data = data, !.queries = s.queries + 1]

\* Entity.scan(conditions, options) up to its return, for a call that starts
\* from the record `s` of the scanner
scan(s, st, tex, order, conditions, options) ==
  LET begun == [s EXCEPT !.conditions = conditions, !.options = options,
                         !.state = "threw", !.err = "", !.filter = NoFilter,
                         !.data = NotQueried(NoError), !.entries = <<>>,
                         !.continuation = Null, !.queries = 0, !.pending = {}]
  IN
  IF options.matchPartition = "exact" /\ ~CanBuild(conditions.id)
  THEN [begun EXCEPT !.err = "Unable to create key from properties"]
  ELSE IF options.matchRow = "exact" /\ ~CanBuild(conditions.name)
  THEN [begun EXCEPT !.err = "Unable to create key from properties"]
  ELSE IF options.matchRow = "partial"
  THEN [begun EXCEPT !.err = "Partial matches on rowKey is not implemented yet!"]
  ELSE fetchResults([begun EXCEPT !.filter = Filter(conditions, options)],
                    st, tex, order, options.continuation)

\* Entity.query(conditions, options)
query(s, st, tex, order, conditions, options) ==
  scan(s, st, tex, order, conditions, QueryOptions(options))

\* Promise.all over no pending handler at all
PromiseAllAtOnce(pending) == TRUE
\* Promise.all(...): every handler of the page has completed
PromiseAll(pending) == pending = {}


\* --------------------------------------------------------------------- state
VARIABLES
  tableExists,  \* tables[this.table] is defined
  store,        \* tables[this.table]: slot -> record
  ts,           \* the Timestamp the next insert draws
  inst,         \* the entity instances the callers hold
  mod,          \* each instance's running modify call: position, closure variables
                \* (NoMod once the call has settled and its closure is gone)
  out,          \* how each instance's last instance-method call settled
  ret,          \* how the last class-method call settled
  cnt,          \* per modify call: modifier invocations, backend calls, conflicts
  ops,          \* calls made so far
  race,         \* the race the callers set up: its size, the initial count, the modifiers
  Class,        \* the class the definer holds: what configure and setup made of Entity
  call,         \* the definer's last call of configure or setup, and what it threw
  held,         \* the instance a reader of the signed classes holds
  got,          \* how that reader's last call settled
  listed,       \* the keys of tables[this.table] in the order _.values lists them
  scn,          \* the scanner's call of scan or query, and how far it has come
  tok           \* a continuation token made from a pair of keys, and its decoding

vars ==
  <<tableExists, store, ts, inst, mod, out, ret, cnt, ops, race, Class, call, held, got, listed, scn, tok>>

NoMod == [pc |-> "idle", modifier |-> "noop", attemptsLeft |-> 0,
          properties |-> NoProps, eTag |-> NullTag, version |-> 0,
          modifiedEntityAttempts |-> <<>>,
          resp |-> Reject(NoError, <<>>, 0, FALSE)]

NoOut == [op |-> "none", state |-> "none", err |-> NoError, value |-> FALSE]
NoRet == [op |-> "none", flag |-> FALSE, existed |-> FALSE, state |-> "none",
          err |-> NoError, inst |-> 0]
NoCnt == [modifier |-> 0, update |-> 0, get |-> 0, conflict |-> 0]
NoRace == [k |-> 0, initial |-> 0, modifiers |-> {}]

Resolved(op, value) == [op |-> op, state |-> "resolved", err |-> NoError, value |-> value]
Rejected(op, err)   == [op |-> op, state |-> "rejected", err |-> err, value |-> FALSE]

Idle(i) == mod[i].pc = "idle"

\* what an answer leaves of the backend, without its in-flight parts
Wire(a) == [ok |-> a.ok, err |-> a.err, etag |-> a.etag, entity |-> a.entity,
            store |-> <<>>, ts |-> 0, tableExists |-> FALSE]

Commit(a) ==
  /\ store' = a.store
  /\ listed' = KeysAfter(listed, a.store)
  /\ ts' = a.ts
  /\ tableExists' = a.tableExists

Init ==
  /\ tableExists \in BOOLEAN
  /\ store = [s \in Slots |-> NoRec]
  /\ ts = 1
  /\ inst = [i \in Inst |-> NoInst]
  /\ mod = [i \in Inst |-> NoMod]
  /\ out = [i \in Inst |-> NoOut]
  /\ ret = NoRet
  /\ cnt = [i \in Inst |-> NoCnt]
  /\ ops = 0
  /\ race = NoRace
  /\ Class = Item2
  /\ call = NoCall
  /\ held = NoItem
  /\ got = NoGot
  /\ listed = <<>>
  /\ scn = NoScan
  /\ tok = NoTok

\* ------------------------------------------------------------- class methods
\* Entity.ensureTable
EnsureTable(fault) ==
  LET a == Aux(fault, createTable(store, ts, tableExists), store, ts, tableExists)
      swallowed == ~a.ok /\ a.err.code = "TableAlreadyExists"
  IN
  /\ Commit(a)
  /\ ret' = [NoRet EXCEPT !.op = "ensureTable", !.existed = tableExists,
                          !.state = IF a.ok \/ swallowed THEN "resolved" ELSE "rejected",
                          !.err = IF a.ok \/ swallowed THEN NoError ELSE a.err]
  /\ UNCHANGED <<inst, mod, out, cnt>>

\* Entity.removeTable
RemoveTable(fault) ==
  LET a == Aux(fault, deleteTable(store, ts, tableExists), store, ts, tableExists) IN
  /\ Commit(a)
  /\ ret' = [NoRet EXCEPT !.op = "removeTable", !.existed = tableExists,
                          !.state = IF a.ok THEN "resolved" ELSE "rejected",
                          !.err = a.err]
  /\ UNCHANGED <<inst, mod, out, cnt>>

\* Entity.create(properties, overwriteIfExists) on the class of schema `version`;
\* the caller keeps the returned instance in variable i (i = 0: drops it)
Create(i, properties, overwriteIfExists, version, fault) ==
  LET signs  == version = CurrentVersion /\ Class.__sign
      entity == IF signs THEN WithSignature(Class, serialize(properties, version), properties)
                ELSE serialize(properties, version)
      cols   == IF signs THEN SerializedCols(version) \cup SignatureCols(Class)
                ELSE SerializedCols(version)
      key    == makeKey(entity.PartitionKey, entity.RowKey)
      a == Aux(fault,
               IF ~overwriteIfExists
               THEN insertEntity(store, ts, tableExists, OnlyCols(entity, cols))
               ELSE updateEntity(store, ts, tableExists, entity, cols, "replace", NullTag),
               store, ts, tableExists)
  IN
  /\ i # 0 => Idle(i)
  /\ version # CurrentVersion => i = 0
  /\ Commit(a)
  /\ ret' = [op |-> "create", flag |-> overwriteIfExists,
             existed |-> tableExists /\ store[key] # NoRec,
             state |-> IF a.ok THEN "resolved" ELSE "rejected",
             err |-> a.err, inst |-> IF a.ok THEN i ELSE 0]
  /\ IF a.ok /\ i # 0
     THEN /\ inst' = [inst EXCEPT ![i] = Entity(OnlyCols(entity, cols), a.etag)]
          /\ out' = [out EXCEPT ![i] = NoOut]
     ELSE UNCHANGED <<inst, out>>
  /\ UNCHANGED <<mod, cnt>>

\* Entity.load(properties, ignoreIfNotExists); the result goes to variable i
Load(i, properties, ignoreIfNotExists, fault) ==
  LET partitionKey == PartitionKeyExact(properties)
      rowKey       == RowKeyExact(properties)
      a == Aux(fault, getEntity(store, ts, tableExists, partitionKey, rowKey),
               store, ts, tableExists)
      ignored == ~a.ok /\ ignoreIfNotExists /\ a.err.code = "ResourceNotFound"
  IN
  /\ Idle(i)
  /\ Commit(a)
  /\ ret' = [op |-> "load", flag |-> ignoreIfNotExists,
             existed |-> tableExists /\ store[makeKey(partitionKey, rowKey)] # NoRec,
             state |-> IF a.ok \/ ignored THEN "resolved" ELSE "rejected",
             err |-> IF ignored THEN NoError ELSE a.err,
             inst |-> IF a.ok THEN i ELSE 0]
  /\ IF a.ok
     THEN /\ inst' = [inst EXCEPT ![i] = Entity(a.entity, a.etag)]
          /\ out' = [out EXCEPT ![i] = NoOut]
     ELSE UNCHANGED <<inst, out>>
  /\ UNCHANGED <<mod, cnt>>

\* Entity.remove(properties, ignoreIfNotExists)
ClassRemove(properties, ignoreIfNotExists, fault) ==
  LET partitionKey == PartitionKeyExact(properties)
      rowKey       == RowKeyExact(properties)
      a == Aux(fault,
               deleteEntity(store, ts, tableExists, partitionKey, rowKey, StarTag),
               store, ts, tableExists)
      ignored == ~a.ok /\ ignoreIfNotExists /\ a.err.code = "ResourceNotFound"
  IN
  /\ Commit(a)
  /\ ret' = [op |-> "remove", flag |-> ignoreIfNotExists,
             existed |-> tableExists /\ store[makeKey(partitionKey, rowKey)] # NoRec,
             state |-> IF a.ok \/ ignored THEN "resolved" ELSE "rejected",
             err |-> IF ignored THEN NoError ELSE a.err,
             inst |-> 0]
  /\ UNCHANGED <<inst, mod, out, cnt>>

\* ---------------------------------------------------------- instance methods
\* Entity.prototype.remove(ignoreChanges, ignoreIfNotExists)
Remove(i, ignoreChanges, ignoreIfNotExists, fault) ==
  LET a == Aux(fault,
               deleteEntity(store, ts, tableExists, inst[i].partitionKey, inst[i].rowKey,
                            IF ignoreChanges THEN StarTag ELSE inst[i].etag),
               store, ts, tableExists)
      ignored == ~a.ok /\ ignoreIfNotExists /\ a.err.code = "ResourceNotFound"
  IN
  /\ inst[i].loaded /\ Idle(i)
  /\ Commit(a)
  /\ out' = [out EXCEPT ![i] = IF a.ok \/ ignored
                               THEN Resolved("remove", ignoreChanges)
                               ELSE Rejected("remove", a.err)]
  /\ UNCHANGED <<inst, mod, ret, cnt>>

\* a then-callback that forgets to take the fetched ETag
ReloadedKeepingEtag(self, entity, etag) ==
  [self EXCEPT !.properties = deserialize(entity),
               !.version    = entity.Version]

\* a then-callback that takes the fetched ETag and version but keeps the property
\* bag the instance had
ReloadedKeepingProperties(self, entity, etag) ==
  [self EXCEPT !.version    = entity.Version,
               !.etag       = etag]

\* the body of reload's then-callback: the fetched entity becomes the instance
Reloaded(self, entity, etag) ==
  [self EXCEPT !.properties = deserialize(entity),
               !.version    = entity.Version,
               !.etag       = etag]

\* Entity.prototype.reload()
Reload(i, fault) ==
  LET a == Aux(fault,
               getEntity(store, ts, tableExists, inst[i].partitionKey, inst[i].rowKey),
               store, ts, tableExists)
  IN
  /\ inst[i].loaded /\ Idle(i)
  /\ Commit(a)
  /\ IF a.ok
     THEN /\ inst' = [inst EXCEPT ![i] = Reloaded(inst[i], a.entity, a.etag)]
          /\ out' = [out EXCEPT ![i] = Resolved("reload", a.etag # inst[i].etag)]
     ELSE /\ out' = [out EXCEPT ![i] = Rejected("reload", a.err)]
          /\ UNCHANGED inst
  /\ UNCHANGED <<mod, ret, cnt>>

\* ------------------------------------------------- Entity.prototype.modify
\* a diff that reports every property as changed
ChangedAll(before, after) == Mapping(CurrentVersion)

\* the properties the modifier changed, under each Type's equal
Changed(before, after) == {p \in Mapping(CurrentVersion) : before[p] # after[p]}

\* attemptModify up to the modifier's return: the snapshot, then the modifier
\* applied to the live property bag
Attempt(i, self, modifier, attemptsLeft) ==
  /\ inst' = [inst EXCEPT ![i] =
                [self EXCEPT !.properties = Modify(modifier, self.properties)]]
  /\ mod' = [mod EXCEPT ![i] =
               [pc |-> "modifying", modifier |-> modifier, attemptsLeft |-> attemptsLeft,
                properties |-> self.properties, eTag |-> self.etag,
                version |-> self.version,
                modifiedEntityAttempts |-> mod[i].modifiedEntityAttempts,
                resp |-> NoMod.resp]]
  /\ cnt' = [cnt EXCEPT ![i].modifier = @ + 1]

\* a handler that also retries when the record is gone
IsConflictOrMissing(err) ==
  err.code \in {"UpdateConditionNotSatisfied", "ResourceNotFound"}

\* the catch handler's test for the error of optimistic concurrency
IsConflict(err) == err.code = "UpdateConditionNotSatisfied"

\* a handler that never gives up
ExhaustedNever(attemptsLeft) == FALSE

\* the catch handler's test after `attemptsLeft -= 1`
Exhausted(attemptsLeft) == attemptsLeft = 0

\* no assertion on the keys
KeysKeptUnchecked(self) == TRUE

\* the two assertions on the keys before the write
KeysKept(self) ==
  /\ self.partitionKey = PartitionKeyExact(self.properties)
  /\ self.rowKey = RowKeyExact(self.properties)

\* a handler that keeps no record of the attempts
PushedNothing(modifiedEntityAttempts, modifiedEntity) == modifiedEntityAttempts

\* modifiedEntityAttempts.push(modifiedEntity), in the branch that retries
Pushed(modifiedEntityAttempts, modifiedEntity) ==
  Append(modifiedEntityAttempts, modifiedEntity)

\* the error thrown when attemptsLeft has reached 0: the snapshot and the
\* modified bag of the attempt that failed last, the modified bags pushed by the
\* attempts before it, and the table
CongestionError(properties, modifiedEntity, modifiedEntityAttempts, table) ==
  [statusCode             |-> 0,
   code                   |-> "EntityWriteCongestionError",
   originalEntity         |-> properties,
   modifiedEntity         |-> modifiedEntity,
   modifiedEntityAttempts |-> modifiedEntityAttempts,
   table                  |-> table]

\* the catch handler of an attempt: restore, rethrow what is no conflict, give up
\* after MAX_MODIFY_ATTEMPTS conflicts, otherwise reload (getEntity is called here)
Catch(i, err, fault) ==
  LET restored == [inst[i] EXCEPT !.etag = mod[i].eTag,
                                  !.properties = mod[i].properties,
                                  !.version = mod[i].version]
      left == mod[i].attemptsLeft - 1
      a == Aux(fault,
               getEntity(store, ts, tableExists, restored.partitionKey, restored.rowKey),
               store, ts, tableExists)
  IN
  /\ inst' = [inst EXCEPT ![i] = restored]
  /\ IF ~IsConflict(err)
     THEN /\ out' = [out EXCEPT ![i] = Rejected("modify", err)]
          /\ mod' = [mod EXCEPT ![i] = NoMod]
          /\ UNCHANGED cnt
     ELSE IF Exhausted(left)
     THEN /\ out' = [out EXCEPT ![i] =
                       Rejected("modify",
                                CongestionError(mod[i].properties, inst[i].properties,
                                                mod[i].modifiedEntityAttempts,
                                                Class.__table))]
          /\ mod' = [mod EXCEPT ![i] = NoMod]
          /\ cnt' = [cnt EXCEPT ![i].conflict = @ + 1]
     ELSE /\ mod' = [mod EXCEPT ![i].pc = "reloading", ![i].attemptsLeft = left,
                                ![i].modifiedEntityAttempts =
                                  Pushed(@, inst[i].properties),
                                ![i].resp = Wire(a)]
          /\ cnt' = [cnt EXCEPT ![i].conflict = @ + 1, ![i].get = @ + 1]
          /\ UNCHANGED out

\* modify(modifier): the first attemptModify()
ModifyStart(i, modifier) ==
  /\ inst[i].loaded /\ Idle(i)
  /\ IF modifier = "throw"
     THEN /\ inst' = [inst EXCEPT ![i].properties = Modify(modifier, @)]
          /\ out' = [out EXCEPT ![i] = Rejected("modify", makeError(0, "ModifierThrew"))]
          /\ cnt' = [cnt EXCEPT ![i] = [NoCnt EXCEPT !.modifier = 1]]
          /\ UNCHANGED mod
     ELSE /\ inst' = [inst EXCEPT ![i].properties = Modify(modifier, @)]
          /\ mod' = [mod EXCEPT ![i] =
                       [pc |-> "modifying", modifier |-> modifier,
                        attemptsLeft |-> MAX_MODIFY_ATTEMPTS,
                        properties |-> inst[i].properties, eTag |-> inst[i].etag,
                        version |-> inst[i].version,
                        modifiedEntityAttempts |-> <<>>,
                        resp |-> NoMod.resp]]
          /\ cnt' = [cnt EXCEPT ![i] = [NoCnt EXCEPT !.modifier = 1]]
          /\ out' = [out EXCEPT ![i] = [NoOut EXCEPT !.op = "modify", !.state = "pending"]]
  /\ UNCHANGED <<tableExists, store, ts, listed, ret>>

\* what the modifier returns: "replace" leaves the bag it is given untouched and
\* returns a copy with another count; the other modifiers return undefined
Returned(modifier, properties) ==
  IF modifier = "replace" THEN [properties EXCEPT !.count = @ + 1] ELSE NoProps

\* a then-callback that takes a returned bag for the instance's properties
FulfilledWithReturned(self, returned) ==
  IF returned # NoProps THEN [self EXCEPT !.properties = returned] ELSE self

\* `.then(function() {`: the callback takes no argument, the value the modifier's
\* promise was fulfilled with is dropped and the live bag is what it goes on with
Fulfilled(self, returned) == self

\* a test that takes every instance for one of the current schema version
SameVersionAlways(self) == TRUE

\* `self._version === self.__version`: no schema version upgrade is due
SameVersion(self) == self.version = CurrentVersion

\* the modifier's promise has settled: diff, key check, updateEntity
ModifyWrite(i, fault) ==
  LET self    == Fulfilled(inst[i], Returned(mod[i].modifier, mod[i].properties))
      upgrade == ~SameVersion(self)
      changed == Changed(mod[i].properties, self.properties)
      mode    == IF upgrade THEN "replace" ELSE "merge"
      cols    == (IF upgrade THEN SerializedCols(CurrentVersion) ELSE changed \cup KeyCols)
                   \cup SignatureCols(Class)
      entityChanges == [WithSignature(Class, serialize(self.properties, CurrentVersion),
                                      self.properties) EXCEPT
                          !.PartitionKey = self.partitionKey,
                          !.RowKey       = self.rowKey]
      a == Aux(fault,
               updateEntity(store, ts, tableExists, entityChanges, cols, mode, self.etag),
               store, ts, tableExists)
  IN
  /\ mod[i].pc = "modifying"
  /\ IF mod[i].modifier = "reject"
     THEN /\ Catch(i, makeError(0, "ModifierRejected"), fault)
          /\ UNCHANGED <<tableExists, store, ts, listed>>
     ELSE IF ~upgrade /\ changed = {}
     THEN /\ out' = [out EXCEPT ![i] = Resolved("modify", FALSE)]
          /\ mod' = [mod EXCEPT ![i] = NoMod]
          /\ UNCHANGED <<tableExists, store, ts, listed, inst, cnt>>
     ELSE IF ~KeysKept(self)
     THEN /\ Catch(i, makeError(0, "AssertionError"), fault)
          /\ UNCHANGED <<tableExists, store, ts, listed>>
     ELSE /\ Commit(a)
          /\ mod' = [mod EXCEPT ![i].pc = "updating", ![i].resp = Wire(a)]
          /\ cnt' = [cnt EXCEPT ![i].update = @ + 1]
          /\ UNCHANGED <<inst, out>>
  /\ UNCHANGED ret

\* updateEntity has answered
ModifyUpdated(i, fault) ==
  /\ mod[i].pc = "updating"
  /\ IF mod[i].resp.ok
     THEN /\ inst' = [inst EXCEPT ![i].etag = mod[i].resp.etag]
          /\ out' = [out EXCEPT ![i] = Resolved("modify", TRUE)]
          /\ mod' = [mod EXCEPT ![i] = NoMod]
          /\ UNCHANGED cnt
     ELSE Catch(i, mod[i].resp.err, fault)
  /\ UNCHANGED <<tableExists, store, ts, listed, ret>>

\* a retry that drops what the reload fetched
ModifyReloadedStale(i) ==
  /\ mod[i].pc = "reloading"
  /\ Attempt(i, inst[i], mod[i].modifier, mod[i].attemptsLeft)
  /\ UNCHANGED <<out, tableExists, store, ts, listed, ret>>

\* a retry that starts counting its attempts anew
ModifyReloadedAfresh(i) ==
  /\ mod[i].pc = "reloading"
  /\ IF mod[i].resp.ok
     THEN /\ inst' = [inst EXCEPT ![i].properties =
                         Modify(mod[i].modifier, deserialize(mod[i].resp.entity)),
                                   ![i].version = mod[i].resp.entity.Version,
                                   ![i].etag = mod[i].resp.etag]
          /\ mod' = [mod EXCEPT ![i] =
                       [pc |-> "modifying", modifier |-> mod[i].modifier,
                        attemptsLeft |-> MAX_MODIFY_ATTEMPTS,
                        properties |-> deserialize(mod[i].resp.entity),
                        eTag |-> mod[i].resp.etag,
                        version |-> mod[i].resp.entity.Version,
                        modifiedEntityAttempts |-> <<>>,
                        resp |-> NoMod.resp]]
          /\ cnt' = [cnt EXCEPT ![i].modifier = 1, ![i].conflict = 0, ![i].get = 0,
                                ![i].update = 0]
          /\ UNCHANGED out
     ELSE /\ out' = [out EXCEPT ![i] = Rejected("modify", mod[i].resp.err)]
          /\ mod' = [mod EXCEPT ![i] = NoMod]
          /\ UNCHANGED <<inst, cnt>>
  /\ UNCHANGED <<tableExists, store, ts, listed, ret>>

\* the reload's getEntity has answered: reload's then-callback, then attemptModify
ModifyReloaded(i) ==
  /\ mod[i].pc = "reloading"
  /\ IF mod[i].resp.ok
     THEN /\ Attempt(i, Reloaded(inst[i], mod[i].resp.entity, mod[i].resp.etag),
                     mod[i].modifier, mod[i].attemptsLeft)
          /\ UNCHANGED out
     ELSE /\ out' = [out EXCEPT ![i] = Rejected("modify", mod[i].resp.err)]
          /\ mod' = [mod EXCEPT ![i] = NoMod]
          /\ UNCHANGED <<inst, cnt>>
  /\ UNCHANGED <<tableExists, store, ts, listed, ret>>

\* ------------------------------------------------------------- specification
CreateProps == {[id |-> d, name |-> n, count |-> c, reason |-> "new"] :
                  d \in CreateIds, n \in CreateNames, c \in CreateCounts}
KeyProps    == {[NoProps EXCEPT !.id = d, !.name = n] : d \in Ids, n \in CreateNames}

\* the callers fill their instance variables in order
InOrder(i) == \A j \in 1..(i - 1) : inst[j].loaded

\* a caller makes one more call
Budget == ops < MaxOps /\ ops' = ops + 1 /\ UNCHANGED <<race, Class, call, held, got, scn, tok>>

DoEnsureTable == Budget /\ EnsureTable(FALSE)
DoRemoveTable == Budget /\ RemoveTable(FALSE)
DoCreate ==
  /\ Budget
  /\ \E i \in Inst, p \in CreateProps, o \in BOOLEAN :
       InOrder(i) /\ Create(i, p, o, CurrentVersion, FALSE)
DoCreateV1 ==
  /\ Budget
  /\ \E p \in CreateProps, o \in BOOLEAN : Create(0, p, o, 1, FALSE)
DoLoad ==
  /\ Budget
  /\ \E i \in Inst, p \in KeyProps, g \in BOOLEAN, fault \in BOOLEAN :
       InOrder(i) /\ Load(i, p, g, fault)
DoClassRemove ==
  /\ Budget
  /\ \E p \in KeyProps, g \in BOOLEAN : ClassRemove(p, g, FALSE)
DoRemove ==
  /\ Budget
  /\ \E i \in Inst, c \in BOOLEAN, g \in BOOLEAN : Remove(i, c, g, FALSE)
DoReload == Budget /\ \E i \in Inst : Reload(i, FALSE)
DoModify == Budget /\ \E i \in Inst, m \in Modifiers : ModifyStart(i, m)

\* a pending promise of a running modify settles
OnModifier == UNCHANGED <<ops, race, Class, call, held, got, scn, tok>> /\ \E i \in Inst, fault \in BOOLEAN : ModifyWrite(i, fault)
OnUpdated  == UNCHANGED <<ops, race, Class, call, held, got, scn, tok>> /\ \E i \in Inst, fault \in BOOLEAN : ModifyUpdated(i, fault)
OnReloaded == UNCHANGED <<ops, race, Class, call, held, got, scn, tok>> /\ \E i \in Inst : ModifyReloaded(i)

Next ==
  \/ DoEnsureTable \/ DoRemoveTable \/ DoCreate \/ DoCreateV1 \/ DoLoad
  \/ DoClassRemove \/ DoRemove \/ DoReload \/ DoModify
  \/ OnModifier \/ OnUpdated \/ OnReloaded

Spec == Init /\ [][Next]_vars

\* ------------------------------------------------------ the signed class
\* the callers of Spec on a class whose current version signs its entities
\* (signentities_test.js: signEntities true, set up with a signingKey)
SignedItem2 ==
  setup(configure(ItemV1, [BaseOptions(CurrentVersion) EXCEPT !.signEntities = Bool(TRUE)]).class,
        [tableName |-> Str("items"), credentials |-> "inMemory", context |-> {},
         cryptoKey |-> Undefined,
         signingKey |-> Str("no-way-you-can-guess-this")]).class

InitSign ==
  /\ tableExists \in BOOLEAN
  /\ store = [s \in Slots |-> NoRec]
  /\ ts = 1
  /\ inst = [i \in Inst |-> NoInst]
  /\ mod = [i \in Inst |-> NoMod]
  /\ out = [i \in Inst |-> NoOut]
  /\ ret = NoRet
  /\ cnt = [i \in Inst |-> NoCnt]
  /\ ops = 0
  /\ race = NoRace
  /\ Class = SignedItem2
  /\ call = NoCall
  /\ held = NoItem
  /\ got = NoGot
  /\ listed = <<>>
  /\ scn = NoScan
  /\ tok = NoTok

SpecSign == InitSign /\ [][Next]_vars

\* ----------------------------------------------------------------- the race
\* K instances loaded from one freshly created record, each running modify once
\* (test 'Item.modify (concurrent 5)'); no transport failure happens
RaceSizes     == 1..(MAX_MODIFY_ATTEMPTS + 1)
RaceModifiers == {{"inc"}, {"inc", "reset"}}

Settled(i) == out[i].state \in {"resolved", "rejected"}

\* up to MaxRacers racers start whenever they like; in a larger race racer 1
\* starts whenever it likes and the others one after the other
Turn(i) ==
  \/ race.k <= MaxRacers
  \/ i = 1
  \/ \A j \in 2..(i - 1) : Settled(j)

InitRace ==
  \E k \in RaceSizes, p \in CreateProps, ms \in RaceModifiers :
    LET cols == SerializedCols(CurrentVersion)
        a == insertEntity([s \in Slots |-> NoRec], 1, TRUE,
                          OnlyCols(serialize(p, CurrentVersion), cols))
    IN
    /\ k > MaxRacers => ms = {"inc"}
    /\ tableExists = TRUE
    /\ store = a.store
    /\ ts = a.ts
    /\ inst = [i \in 1..k |-> Entity(a.entity, a.etag)]
    /\ mod = [i \in 1..k |-> NoMod]
    /\ out = [i \in 1..k |-> NoOut]
    /\ ret = [NoRet EXCEPT !.op = "load", !.existed = TRUE, !.state = "resolved",
                           !.inst = k]
    /\ cnt = [i \in 1..k |-> NoCnt]
    /\ ops = 0
    /\ race = [k |-> k, initial |-> p.count, modifiers |-> ms]
    /\ Class = Item2
    /\ call = NoCall
    /\ held = NoItem
    /\ got = NoGot
    /\ listed = KeysAfter(<<>>, a.store)
    /\ scn = NoScan
    /\ tok = NoTok

RaceModify ==
  /\ UNCHANGED <<ops, race, Class, call, held, got, scn, tok>>
  /\ \E i \in DOMAIN inst, m \in race.modifiers :
       out[i] = NoOut /\ Turn(i) /\ ModifyStart(i, m)
RaceOnModifier == UNCHANGED <<ops, race, Class, call, held, got, scn, tok>> /\ \E i \in DOMAIN inst : ModifyWrite(i, FALSE)
RaceOnUpdated  == UNCHANGED <<ops, race, Class, call, held, got, scn, tok>> /\ \E i \in DOMAIN inst : ModifyUpdated(i, FALSE)
RaceOnReloaded == UNCHANGED <<ops, race, Class, call, held, got, scn, tok>> /\ \E i \in DOMAIN inst : ModifyReloaded(i)

NextRace == RaceModify \/ RaceOnModifier \/ RaceOnUpdated \/ RaceOnReloaded

SpecRace == InitRace /\ [][NextRace]_vars

\* ------------------------------------------- one modify against a writer
\* one instance runs modify once while another process, which never stops,
\* overwrites the record's count or deletes the record (eTag '*')
InitLive == InitRace /\ race.k = 1

LiveWrite ==
  /\ UNCHANGED <<inst, mod, out, ret, cnt, ops, race, Class, call, held, got, scn, tok>>
  /\ store[makeKey(inst[1].partitionKey, inst[1].rowKey)] # NoRec
  /\ \E c \in CreateCounts :
       LET stored == store[makeKey(inst[1].partitionKey, inst[1].rowKey)] IN
       /\ c # stored.count
       /\ Commit(updateEntity(store, ts, tableExists, [stored EXCEPT !.count = c],
                              SerializedCols(CurrentVersion), "replace", StarTag))
LiveRemove ==
  /\ UNCHANGED <<inst, mod, out, ret, cnt, ops, race, Class, call, held, got, scn, tok>>
  /\ store[makeKey(inst[1].partitionKey, inst[1].rowKey)] # NoRec
  /\ Commit(deleteEntity(store, ts, tableExists, inst[1].partitionKey,
                         inst[1].rowKey, StarTag))

NextLive ==
  \/ RaceModify \/ RaceOnModifier \/ RaceOnUpdated \/ RaceOnReloaded
  \/ LiveWrite \/ LiveRemove

\* a call waits for the promise of its modifier
ModifierPending == \E i \in DOMAIN mod : mod[i].pc = "modifying"

\* every promise the call waits for is settled: updateEntity's and getEntity's
\* (weak fairness of their callbacks) and the modifier's.  RaceOnModifier is
\* enabled exactly while ModifierPending holds and every step of it ends that
\* wait, so its weak fairness is stated as []<>~ModifierPending.  The writer is
\* free to act or not, for ever
SpecLive ==
  /\ InitLive /\ [][NextLive]_vars
  /\ WF_vars(RaceOnUpdated) /\ WF_vars(RaceOnReloaded)
  /\ []<>~ModifierPending

\* ------------------------------------------------ the definer (configure, setup)
\* a call whose assignments go to the prototype of the class it is called on
inheritsInPlace(Parent, subClass) == subClass

\* util.inherits(subClass, Parent) and _.assign(subClass, Parent): what the class
\* the call is made on is after the call; every assignment that follows goes to
\* subClass.prototype, whose prototype Parent.prototype is
inherits(Parent, subClass) == Parent

\* call.Parent is the class the call was made on as it was before the call,
\* call.kept the same class as it is after the call, and call.on tells whether
\* the definer called on the class it holds or on the one its last call, a
\* configure or a setup, was made on
\* Class = Class.configure(options), when it does not throw
Configure(options) ==
  LET r == configure(Class, options) IN
  /\ call' = [op |-> "configure", Parent |-> Class, options |-> options,
              threw |-> r.threw,
              kept |-> IF r.threw = "" THEN inherits(Class, r.class) ELSE Class,
              on |-> "held"]
  /\ Class' = IF r.threw = "" THEN r.class ELSE Class

\* Class = Class.setup(options), when it does not throw
Setup(options) ==
  LET r == setup(Class, options) IN
  /\ call' = [op |-> "setup", Parent |-> Class, options |-> options,
              threw |-> r.threw,
              kept |-> IF r.threw = "" THEN inherits(Class, r.class) ELSE Class,
              on |-> "held"]
  /\ Class' = IF r.threw = "" THEN r.class ELSE Class

\* Class = Parent.configure(options) on the class the last call was made on
\* (signentities_test.js: ItemV1.configure after ItemV1.setup)
ConfigureKept(options) ==
  LET r == configure(call.kept, options) IN
  /\ call' = [op |-> "configure", Parent |-> call.kept, options |-> options,
              threw |-> r.threw,
              kept |-> IF r.threw = "" THEN inherits(call.kept, r.class) ELSE call.kept,
              on |-> IF call.op = "setup" THEN "parentOfSetup" ELSE "parentOfConfigure"]
  /\ Class' = IF r.threw = "" THEN r.class ELSE Class

\* Class = Parent.setup(options) on the class the last call was made on
\* (signentities_test.js: ItemV1.setup with another signingKey)
SetupKept(options) ==
  LET r == setup(call.kept, options) IN
  /\ call' = [op |-> "setup", Parent |-> call.kept, options |-> options,
              threw |-> r.threw,
              kept |-> IF r.threw = "" THEN inherits(call.kept, r.class) ELSE call.kept,
              on |-> IF call.op = "setup" THEN "parentOfSetup" ELSE "parentOfConfigure"]
  /\ Class' = IF r.threw = "" THEN r.class ELSE Class

InitClass ==
  /\ Class = EntityPrototype
  /\ call = NoCall
  /\ held = NoItem
  /\ got = NoGot
  /\ listed = <<>>
  /\ scn = NoScan
  /\ tok = NoTok
  /\ tableExists = FALSE
  /\ store = [s \in Slots |-> NoRec]
  /\ ts = 1
  /\ inst = [i \in Inst |-> NoInst]
  /\ mod = [i \in Inst |-> NoMod]
  /\ out = [i \in Inst |-> NoOut]
  /\ ret = NoRet
  /\ cnt = [i \in Inst |-> NoCnt]
  /\ ops = 0
  /\ race = NoRace

tableVars == <<tableExists, store, ts, inst, mod, out, ret, cnt, ops, race, held, got, listed, scn, tok>>

\* the definer makes its calls one after the other; a call that throws ends it
DoConfigure ==
  /\ call.threw = ""
  /\ UNCHANGED tableVars
  /\ \E options \in ConfigureOptions : Configure(options)
DoSetup ==
  /\ call.threw = ""
  /\ UNCHANGED tableVars
  /\ \E options \in SetupOptions : Setup(options)

NextClass == DoConfigure \/ DoSetup

SpecClass == InitClass /\ [][NextClass]_vars

\* a definer that goes back to the class its last call was made on: it sets it
\* up again with other options, or configures it to its next version
DoConfigureKept ==
  /\ call.op \in {"configure", "setup"} /\ call.threw = ""
  /\ UNCHANGED tableVars
  /\ \E options \in ConfigureOptions : ConfigureKept(options)
DoSetupKept ==
  /\ call.op \in {"configure", "setup"} /\ call.threw = ""
  /\ UNCHANGED tableVars
  /\ \E options \in SetupOptions : SetupKept(options)

NextKept == DoConfigure \/ DoSetup \/ DoConfigureKept \/ DoSetupKept

SpecKept == InitClass /\ [][NextKept]_vars

\* --------------------------------------- the reader (create, load, reload, scan)
Got(op, class, state, err, entity, migrated, entries) ==
  [op |-> op, Class |-> class, state |-> state, err |-> err, entity |-> entity,
   migrated |-> migrated, entries |-> entries]

\* what a backend error or a throwing constructor rejects the call with
ErrorOf(a, new) == IF ~a.ok THEN a.err.code ELSE new.threw

\* Class.create(properties, overwriteIfExists); the reader keeps the instance
ReadCreate(class, properties, overwriteIfExists) ==
  LET entity == __serialize(ClassOf(class), properties)
      cols   == Serialized(ClassOf(class))
      a == IF ~overwriteIfExists
           THEN insertEntity(store, ts, tableExists, OnlyCols(entity, cols))
           ELSE updateEntity(store, ts, tableExists, entity, cols, "replace", NullTag)
      new == New(class, OnlyCols(entity, cols), a.etag)
      ok  == a.ok /\ new.threw = ""
  IN
  /\ Commit(a)
  /\ got' = Got("create", class, IF ok THEN "resolved" ELSE "rejected",
                ErrorOf(a, new), NoRec, <<>>, {})
  /\ held' = IF ok THEN new.item ELSE held

\* Class.load(properties); the reader keeps the instance
ReadLoad(class, properties) ==
  LET a == getEntity(store, ts, tableExists,
                     PartitionKeyExact(properties), RowKeyExact(properties))
      new == New(class, a.entity, a.etag)
      ok  == a.ok /\ new.threw = ""
  IN
  /\ Commit(a)
  /\ got' = Got("load", class, IF ok THEN "resolved" ELSE "rejected",
                ErrorOf(a, new), a.entity, IF a.ok THEN new.migrated ELSE <<>>, {})
  /\ held' = IF ok THEN new.item ELSE held

\* held.reload()
ReadReload ==
  LET a == getEntity(store, ts, tableExists, held._partitionKey, held._rowKey)
      d == __deserialize(ClassOf(held.Class), ClassOf(held.Class).__version, a.entity)
      ok == a.ok /\ d.threw = ""
  IN
  /\ held.loaded
  /\ Commit(a)
  /\ got' = Got("reload", held.Class, IF ok THEN "resolved" ELSE "rejected",
                IF ~a.ok THEN a.err.code ELSE d.threw, a.entity,
                IF a.ok THEN d.migrated ELSE <<>>, {})
  /\ held' = IF ok
             THEN [held EXCEPT !._properties = d.properties,
                               !._version = a.entity.Version,
                               !._etag = a.etag]
             ELSE held

\* Class.scan(): every stored entity wrapped in the class
ReadScan(class) ==
  LET entities == {store[s] : s \in {x \in Slots : store[x] # NoRec}}
      news == {New(class, entity, entityEtag(entity)) : entity \in entities}
      ok == tableExists /\ \A new \in news : new.threw = ""
  IN
  /\ UNCHANGED <<tableExists, store, ts, listed>>
  /\ got' = Got("scan", class, IF ok THEN "resolved" ELSE "rejected",
                IF ~tableExists THEN "ResourceNotFound"
                ELSE IF ok THEN ""
                ELSE (CHOOSE new \in news : new.threw # "").threw,
                NoRec, <<>>, IF ok THEN {new.item : new \in news} ELSE {})
  /\ UNCHANGED held

InitRead ==
  /\ tableExists = TRUE
  /\ store = [s \in Slots |-> NoRec]
  /\ ts = 1
  /\ inst = [i \in Inst |-> NoInst]
  /\ mod = [i \in Inst |-> NoMod]
  /\ out = [i \in Inst |-> NoOut]
  /\ ret = NoRet
  /\ cnt = [i \in Inst |-> NoCnt]
  /\ ops = 0
  /\ race = NoRace
  /\ Class = EntityPrototype
  /\ call = NoCall
  /\ held = NoItem
  /\ got = NoGot
  /\ listed = <<>>
  /\ scn = NoScan
  /\ tok = NoTok

\* the reader makes one more call
ReadBudget ==
  /\ ops < MaxReads
  /\ ops' = ops + 1
  /\ UNCHANGED <<inst, mod, out, ret, cnt, race, Class, call, scn, tok>>

ReadProps == {[id |-> "a", name |-> n, count |-> 1, reason |-> "new"] : n \in Names}

DoReadCreate ==
  /\ ReadBudget
  /\ \E class \in SignedItems, p \in ReadProps, o \in BOOLEAN : ReadCreate(class, p, o)
DoReadLoad ==
  /\ ReadBudget
  /\ \E class \in SignedItems, p \in ReadProps : ReadLoad(class, p)
DoReadReload == ReadBudget /\ ReadReload
DoReadScan == ReadBudget /\ \E class \in SignedItems : ReadScan(class)

NextRead == DoReadCreate \/ DoReadLoad \/ DoReadReload \/ DoReadScan

SpecRead == InitRead /\ [][NextRead]_vars

\* --------------------------------- the scanner (scan, query, create, remove)
InstanceKey(item) == makeKey(item.partitionKey, item.rowKey)
KeysOf(entries) == [i \in 1..Len(entries) |-> InstanceKey(entries[i])]

\* scn.written and scn.stable keep what the table went through since the
\* scanner's first call: whether anyone wrote, and the records that have been
\* there unchanged all along
\* the scanner is between the first call of a scan and its last page
InProgress ==
  \/ scn.state \in {"fetching", "handling"}
  \/ scn.state = "resolved" /\ scn.continuation # Null

\* the scanner makes its call of scan or query
ScanCall(op, conditions, options) ==
  LET fresh == [NoScan EXCEPT !.op = op, !.given = options] IN
  /\ scn.op = "none"
  /\ scn' = [(IF op = "query"
             THEN query(fresh, store, tableExists, listed, conditions, options)
             ELSE scan(fresh, store, tableExists, listed, conditions, options))
            EXCEPT !.stable = {k \in DOMAIN store : store[k] # NoRec}]
  /\ UNCHANGED <<tableExists, store, ts, listed>>

\* the scanner calls again with the continuation it was given
ScanFollow ==
  LET options == [scn.options EXCEPT !.continuation = scn.continuation] IN
  /\ scn.state = "resolved"
  /\ scn.continuation # Null
  /\ scn' = scan(scn, store, tableExists, listed, scn.conditions, options)
  /\ UNCHANGED <<tableExists, store, ts, listed>>

\* the .then of queryEntities: the entities are wrapped and, with a handler,
\* handed to it; without one the page is what scan resolves with
ScanFetched ==
  LET data == scn.data
      entries == [i \in 1..Len(data.entities) |->
                    Entity(data.entities[i], entityEtag(data.entities[i]))]
      continuation == encodeContinuationToken(data)
  IN
  /\ scn.state = "fetching"
  /\ scn' =
       IF ~data.ok
       THEN [scn EXCEPT !.state = "rejected", !.err = data.err.code]
       ELSE IF scn.options.handler
       THEN [scn EXCEPT !.state = "handling", !.entries = entries,
                        !.continuation = continuation,
                        !.handled = scn.handled \o KeysOf(entries),
                        !.pending = scn.pending \cup
                                    {InstanceKey(entries[i]) : i \in 1..Len(entries)}]
       ELSE [scn EXCEPT !.state = "resolved", !.entries = entries,
                        !.continuation = continuation,
                        !.seen = scn.seen \o KeysOf(entries)]
  /\ UNCHANGED <<tableExists, store, ts, listed>>

\* the promise a handler returned is fulfilled
ScanHandlerDone(key) ==
  /\ scn.state = "handling"
  /\ key \in scn.pending
  /\ scn' = [scn EXCEPT !.pending = scn.pending \ {key}]
  /\ UNCHANGED <<tableExists, store, ts, listed>>

\* the .then of Promise.all: the next page is fetched, or scan resolves
ScanHandled ==
  /\ scn.state = "handling"
  /\ PromiseAll(scn.pending)
  /\ scn' = IF scn.continuation # Null
            THEN LET next == fetchResults(scn, store, tableExists, listed,
                                          scn.continuation)
                 IN IF next.state = "threw" THEN [next EXCEPT !.state = "rejected"]
                    ELSE next
            ELSE [scn EXCEPT !.state = "resolved"]
  /\ UNCHANGED <<tableExists, store, ts, listed>>

\* the records of the table the scanner works on
ScanProps ==
  {[id |-> "a", name |-> "n", count |-> 1, reason |-> "new"],
   [id |-> "a", name |-> "m", count |-> 0, reason |-> "new"],
   [id |-> "",  name |-> "n", count |-> 1, reason |-> "new"]}

\* a table filled by creating some of those records in some order
RECURSIVE Filled(_)
Filled(creates) ==
  IF creates = <<>>
  THEN Answer(TRUE, NoError, NullTag, NoRec, [s \in Slots |-> NoRec], 1, TRUE)
  ELSE LET before == Filled(SubSeq(creates, 1, Len(creates) - 1)) IN
       insertEntity(before.store, before.ts, TRUE,
                    OnlyCols(serialize(creates[Len(creates)], CurrentVersion),
                             SerializedCols(CurrentVersion)))
RECURSIVE Orders(_)
Orders(props) ==
  {<<>>} \cup UNION {{<<p>> \o o : o \in Orders(props \ {p})} : p \in props}

InitScan ==
  \E creates \in Orders(ScanProps) :
    /\ tableExists = TRUE
    /\ store = Filled(creates).store
    /\ ts = Filled(creates).ts
    /\ listed = [i \in 1..Len(creates) |->
                   makeKey(PartitionKeyExact(creates[i]), RowKeyExact(creates[i]))]
    /\ inst = [i \in Inst |-> NoInst]
    /\ mod = [i \in Inst |-> NoMod]
    /\ out = [i \in Inst |-> NoOut]
    /\ ret = NoRet
    /\ cnt = [i \in Inst |-> NoCnt]
    /\ ops = 0
    /\ race = NoRace
    /\ Class = Item2
    /\ call = NoCall
    /\ held = NoItem
    /\ got = NoGot
    /\ scn = NoScan
    /\ tok = NoTok

\* the conditions and the options the scanner calls with
Conditions ==
  {NoConditions,
   [NoConditions EXCEPT !.id = Literal("a")],
   [NoConditions EXCEPT !.id = Op("==", "")],
   [NoConditions EXCEPT !.name = Literal("n")],
   [NoConditions EXCEPT !.name = Op("!=", "n")],
   [NoConditions EXCEPT !.count = Op("<", 1)],
   [NoConditions EXCEPT !.id = Literal("a"), !.name = Literal("n")],
   [NoConditions EXCEPT !.id = Literal("a"), !.name = Op("!=", "n")]}
Matches == {<<"none", "none">>, <<"exact", "none">>, <<"none", "exact">>,
            <<"exact", "exact">>, <<"none", "partial">>}
Limits == {0, 1, 2}

\* the scanner makes one more call
ScanBudget ==
  /\ ops < MaxReads
  /\ ops' = ops + 1
  /\ UNCHANGED <<inst, mod, out, cnt, race, Class, call, held, got, tok>>

DoScan ==
  /\ ScanBudget
  /\ UNCHANGED ret
  /\ \E op \in {"scan", "query"}, conditions \in Conditions, m \in Matches,
        limit \in Limits, handler \in BOOLEAN :
       ScanCall(op, conditions, ScanOptions(m[1], m[2], limit, handler, Absent))
DoScanFollow == ScanBudget /\ UNCHANGED ret /\ ScanFollow
\* another caller creates or removes a record while the scan is under way
DoScanCreate ==
  /\ ScanBudget
  /\ InProgress
  /\ \E p \in ScanProps : Create(0, p, FALSE, CurrentVersion, FALSE)
  /\ scn' = [scn EXCEPT !.written = TRUE,
                        !.stable = {k \in @ : store'[k] = store[k]}]
DoScanRemove ==
  /\ ScanBudget
  /\ InProgress
  /\ \E p \in ScanProps : ClassRemove(p, FALSE, FALSE)
  /\ scn' = [scn EXCEPT !.written = TRUE,
                        !.stable = {k \in @ : store'[k] = store[k]}]

scanVars == <<inst, mod, out, ret, cnt, ops, race, Class, call, held, got, tok>>
OnScanFetched     == UNCHANGED scanVars /\ ScanFetched
OnScanHandlerDone == UNCHANGED scanVars /\ \E key \in Slots : ScanHandlerDone(key)
OnScanHandled     == UNCHANGED scanVars /\ ScanHandled

NextScan ==
  \/ DoScan \/ DoScanFollow \/ DoScanCreate \/ DoScanRemove
  \/ OnScanFetched \/ OnScanHandlerDone \/ OnScanHandled
SpecScan == InitScan /\ [][NextScan]_vars

\* ------------------------------------------- the token maker (encode, decode)
\* the pairs of keys a backend result may carry
NextKeyValues == StringsUpTo(MaxKeyLen) \cup {Absent}

\* encodeContinuationToken(result), of the one result the maker is given
Encode(result) ==
  /\ tok = NoTok
  /\ tok' = [result |-> result, token |-> encodeContinuationToken(result),
          decoded |-> NotDecoded]
\* decodeContinuationToken(token) of the token just made
Decode ==
  /\ tok.decoded = NotDecoded
  /\ tok.token # Null
  /\ tok' = [tok EXCEPT !.decoded = decodeContinuationToken(tok.token)]

tokenVars ==
  <<tableExists, store, ts, inst, mod, out, ret, cnt, ops, race, Class, call,
    held, got, listed, scn>>

DoEncode ==
  /\ UNCHANGED tokenVars
  /\ \E pk \in NextKeyValues, rk \in NextKeyValues : Encode(NextKeys(pk, rk))
DoDecode == UNCHANGED tokenVars /\ Decode

NextToken == DoEncode \/ DoDecode
SpecToken == InitClass /\ [][NextToken]_vars

\* ------------------------------------- the scanner of a table of many records
\* the table holds the records a/1 .. a/n, created in that order
PageSizes == {1, MaxTop - 1, MaxTop, MaxTop + 1, MaxTop + 2}
PageLimits == {0, 1, MaxTop - 1, MaxTop, MaxTop + 1}
PageRecord(i) ==
  [serialize([id |-> "a", name |-> ToString(i), count |-> i % 2, reason |-> "new"],
             CurrentVersion) EXCEPT !.Timestamp = i]
PageKey(i) == makeKey("a", ToString(i))
PageConditions ==
  {NoConditions, [NoConditions EXCEPT !.count = Op("<", 1)]}

InitPage ==
  \E n \in PageSizes :
    /\ tableExists = TRUE
    /\ store = [k \in {PageKey(i) : i \in 1..n} |->
                 PageRecord(CHOOSE i \in 1..n : PageKey(i) = k)]
    /\ ts = n + 1
    /\ listed = [i \in 1..n |-> PageKey(i)]
    /\ inst = [i \in Inst |-> NoInst]
    /\ mod = [i \in Inst |-> NoMod]
    /\ out = [i \in Inst |-> NoOut]
    /\ ret = NoRet
    /\ cnt = [i \in Inst |-> NoCnt]
    /\ ops = 0
    /\ race = NoRace
    /\ Class = Item2
    /\ call = NoCall
    /\ held = NoItem
    /\ got = NoGot
    /\ scn = NoScan
    /\ tok = NoTok

\* the scanner calls scan or query without a handler
DoPageScan ==
  /\ ScanBudget
  /\ UNCHANGED ret
  /\ \E op \in {"scan", "query"}, conditions \in PageConditions, limit \in PageLimits :
       ScanCall(op, [conditions EXCEPT !.id = Literal("a")],
                ScanOptions("none", "none", limit, FALSE, Absent))
DoPageFollow  == ScanBudget /\ UNCHANGED ret /\ ScanFollow
OnPageFetched == UNCHANGED scanVars /\ ScanFetched

NextPage == DoPageScan \/ DoPageFollow \/ OnPageFetched
SpecPage == InitPage /\ [][NextPage]_vars

\* ------------------- the table client (InMemoryWrapper called on its own)
\* the keys the client's callers use, some of them holding a '!'
TablePartitionKeys == {"a", "a!"}
TableRowKeys       == {"n", "!n"}
TableSlots ==
  {makeKey(pk, rk) : pk \in TablePartitionKeys, rk \in TableRowKeys}
TableEntities ==
  {[PartitionKey |-> pk, RowKey |-> rk, Version |-> CurrentVersion, Timestamp |-> 0,
    id |-> pk, name |-> rk, count |-> c, reason |-> "new",
    Signature |-> NoSignature] :
     pk \in TablePartitionKeys, rk \in TableRowKeys, c \in CreateCounts}

\* options.eTag of a call: not given, '*', the ETag of the record in the slot
\* (of the entity itself when the slot is empty), or an ETag no record has
TableTags == {"none", "star", "stored", "other"}
TagOf(tag, entity) ==
  LET key == makeKey(entity.PartitionKey, entity.RowKey) IN
  CASE tag = "none"   -> NullTag
    [] tag = "star"   -> StarTag
    [] tag = "stored" -> IF store[key] # NoRec THEN entityEtag(store[key])
                         ELSE entityEtag(entity)
    [] OTHER          -> entityEtag([entity EXCEPT !.count = 7])

\* what the client's last call came to
Called(op, given, existed, a) ==
  [op |-> op, flag |-> given, existed |-> existed,
   state |-> IF a.ok THEN "resolved" ELSE "rejected", err |-> a.err, inst |-> 0]

\* wrapper.insertEntity(entity)
TableInsert(entity) ==
  LET key == makeKey(entity.PartitionKey, entity.RowKey)
      a   == insertEntity(store, ts, tableExists, entity)
  IN
  /\ Commit(a)
  /\ ret' = Called("insertEntity", FALSE, store[key] # NoRec, a)

\* wrapper.updateEntity(entity, {mode: mode, eTag: eTag})
TableUpdate(entity, mode, eTag) ==
  LET key == makeKey(entity.PartitionKey, entity.RowKey)
      a   == updateEntity(store, ts, tableExists, entity,
                          SerializedCols(CurrentVersion), mode, eTag)
  IN
  /\ Commit(a)
  /\ ret' = Called("updateEntity", eTag # NullTag, store[key] # NoRec, a)

\* wrapper.deleteEntity(partitionKey, rowKey, {eTag: eTag})
TableDelete(partitionKey, rowKey, eTag) ==
  LET key == makeKey(partitionKey, rowKey)
      a   == deleteEntity(store, ts, tableExists, partitionKey, rowKey, eTag)
  IN
  /\ Commit(a)
  /\ ret' = Called("deleteEntity", eTag # NullTag, store[key] # NoRec, a)

InitTable ==
  /\ tableExists \in BOOLEAN
  /\ store = [s \in TableSlots |-> NoRec]
  /\ ts = 1
  /\ listed = <<>>
  /\ inst = [i \in Inst |-> NoInst]
  /\ mod = [i \in Inst |-> NoMod]
  /\ out = [i \in Inst |-> NoOut]
  /\ ret = NoRet
  /\ cnt = [i \in Inst |-> NoCnt]
  /\ ops = 0
  /\ race = NoRace
  /\ Class = Item2
  /\ call = NoCall
  /\ held = NoItem
  /\ got = NoGot
  /\ scn = NoScan
  /\ tok = NoTok

\* the client's callers make one more call
TableBudget ==
  /\ ops < MaxOps
  /\ ops' = ops + 1
  /\ UNCHANGED <<inst, mod, out, cnt, race, Class, call, held, got, scn, tok>>

DoTableInsert == TableBudget /\ \E entity \in TableEntities : TableInsert(entity)
DoTableUpdate ==
  /\ TableBudget
  /\ \E entity \in TableEntities, mode \in {"replace", "merge"}, tag \in TableTags :
       TableUpdate(entity, mode, TagOf(tag, entity))
DoTableDelete ==
  /\ TableBudget
  /\ \E entity \in TableEntities, tag \in TableTags \ {"none"} :
       TableDelete(entity.PartitionKey, entity.RowKey, TagOf(tag, entity))

NextTable == DoTableInsert \/ DoTableUpdate \/ DoTableDelete
SpecTable == InitTable /\ [][NextTable]_vars


\* -------------------------------------------------------------- properties
Racers   == DOMAIN inst
RaceDone == race.k > 0 /\ \A i \in Racers : Settled(i)
AllIncrement == race.modifiers = {"inc"}
RaceRecord == store[makeKey(inst[1].partitionKey, inst[1].rowKey)]

RECURSIVE Conflicts(_)
Conflicts(k) == IF k = 0 THEN 0 ELSE cnt[k].conflict + Conflicts(k - 1)

\* C1 (as stated): when K instances loaded from one record have each run
\* modify with the incrementing modifier, all K calls have succeeded and the
\* stored count is the initial count plus K, whatever K is
C1_EveryRaceConverges ==
  (RaceDone /\ AllIncrement) =>
    /\ \A i \in Racers : out[i] = Resolved("modify", TRUE)
    /\ RaceRecord.count = race.initial + race.k

\* C1 (amended): when K <= MAX_MODIFY_ATTEMPTS instances loaded from one record
\* have each run modify with the incrementing modifier, all K calls have
\* succeeded and the stored count is the initial count plus K
C1_RaceConverges ==
  (RaceDone /\ AllIncrement /\ race.k <= MAX_MODIFY_ATTEMPTS) =>
    /\ \A i \in Racers : out[i] = Resolved("modify", TRUE)
    /\ RaceRecord.count = race.initial + race.k

\* three racers are done, all succeeded, and one of them had to retry twice
C1_Witness ==
  /\ RaceDone /\ AllIncrement /\ race.k = 3
  /\ \A i \in Racers : out[i] = Resolved("modify", TRUE)
  /\ \E i \in Racers : cnt[i].conflict = 2
  /\ RaceRecord.count = race.initial + 3

\* the write of racer i has been accepted and its answer is on the way
Accepted(i) == mod[i].pc = "updating" /\ mod[i].resp.ok

\* C2 (as stated): of the writes that racing modify calls make from one baseline
\* ETag only one is accepted, and K racers that have all written have seen at
\* least K-1 conflicts between them
C2_OneWinnerPerBaseline ==
  /\ \A i, j \in Racers :
       (i # j /\ Accepted(i) /\ Accepted(j)) => mod[i].eTag # mod[j].eTag
  /\ (RaceDone /\ \A i \in Racers : cnt[i].update > 0) =>
       Conflicts(race.k) >= race.k - 1

\* C3: one modify call invokes the modifier at most MAX_MODIFY_ATTEMPTS times
\* and writes at most that often; after that many conflicts it has failed with
\* EntityWriteCongestionError and is not running any more
C3_AttemptsBounded ==
  \A i \in Racers :
    /\ cnt[i].modifier <= MAX_MODIFY_ATTEMPTS
    /\ cnt[i].update <= MAX_MODIFY_ATTEMPTS
    /\ cnt[i].conflict = MAX_MODIFY_ATTEMPTS =>
         /\ mod[i].pc = "idle"
         /\ out[i].op = "modify" /\ out[i].state = "rejected"
         /\ out[i].err.code = "EntityWriteCongestionError"

\* a call has given up after MAX_MODIFY_ATTEMPTS rejected writes
C3_Witness ==
  \E i \in Racers :
    /\ cnt[i].modifier = MAX_MODIFY_ATTEMPTS
    /\ cnt[i].update = MAX_MODIFY_ATTEMPTS
    /\ cnt[i].conflict = MAX_MODIFY_ATTEMPTS
    /\ out[i].err.code = "EntityWriteCongestionError"

KeyOf(i)  == makeKey(inst[i].partitionKey, inst[i].rowKey)
Stored(i) == store[KeyOf(i)]
Exists(i) == tableExists /\ Stored(i) # NoRec
KeyOfProps(p) == makeKey(PartitionKeyExact(p), RowKeyExact(p))

\* C4: when the modifier of an instance of the current schema version has
\* returned and left every property equal to its value before, the attempt makes
\* no backend call,
\* changes neither the stored record nor the instance's ETag, and the call
\* returns; on a first attempt the whole call has made no backend call
C4_NoopModifyIsLocal ==
  [][\A i \in Inst, f \in BOOLEAN :
       (/\ ModifyWrite(i, f)
        /\ mod[i].modifier # "reject"
        /\ inst[i].version = CurrentVersion
        /\ \A p \in Mapping(CurrentVersion) :
             inst[i].properties[p] = mod[i].properties[p])
       => /\ cnt' = cnt
          /\ cnt[i].conflict = 0 => cnt'[i].update = 0 /\ cnt'[i].get = 0
          /\ store' = store /\ tableExists' = tableExists /\ ts' = ts
          /\ inst'[i].etag = inst[i].etag
          /\ out'[i] = Resolved("modify", FALSE)]_vars

\* a modify has returned after one modifier invocation and no backend call
C4_Witness ==
  \E i \in Inst :
    /\ out[i] = Resolved("modify", FALSE)
    /\ inst[i].version = CurrentVersion
    /\ cnt[i] = [NoCnt EXCEPT !.modifier = 1]
    /\ Exists(i) /\ inst[i].etag = entityEtag(Stored(i))

\* C5: when the modifier has changed a property the partition key or the row
\* key is built from, the call fails with the assertion's error at once: no
\* backend call is made, no retry is started, the table is left as it was
C5_KeyChangeIsFatal ==
  [][\A i \in Inst, f \in BOOLEAN :
       (/\ ModifyWrite(i, f)
        /\ \/ inst[i].properties.id # mod[i].properties.id
           \/ inst[i].properties.name # mod[i].properties.name)
       => /\ out'[i] = Rejected("modify", makeError(0, "AssertionError"))
          /\ mod'[i].pc = "idle"
          /\ cnt' = cnt
          /\ store' = store /\ tableExists' = tableExists /\ ts' = ts]_vars

\* a modify of an existing record has failed on the key assertion without a write
C5_Witness ==
  \E i \in Inst :
    /\ out[i] = Rejected("modify", makeError(0, "AssertionError"))
    /\ cnt[i] = [NoCnt EXCEPT !.modifier = 1]
    /\ Exists(i) /\ inst[i].etag = entityEtag(Stored(i))

\* C6: a failure of a modify attempt that is no precondition conflict ends the
\* call with that very error: a rejecting modifier, a write answered with an
\* error (record gone, transport failure) and a throwing modifier are followed
\* by no reload, no modifier invocation and no write; the write of a modify on
\* a record that has been removed is answered with ResourceNotFound (404)
C6_OtherFailuresAreFatal ==
  [][\A i \in Inst, f \in BOOLEAN :
       /\ (ModifyWrite(i, f) /\ mod[i].modifier = "reject") =>
            /\ out'[i] = Rejected("modify", makeError(0, "ModifierRejected"))
            /\ mod'[i].pc = "idle"
            /\ cnt' = cnt
            /\ store' = store /\ tableExists' = tableExists
       /\ (/\ ModifyUpdated(i, f)
           /\ ~mod[i].resp.ok
           /\ mod[i].resp.err.code # "UpdateConditionNotSatisfied") =>
            /\ out'[i] = Rejected("modify", mod[i].resp.err)
            /\ mod'[i].pc = "idle"
            /\ cnt' = cnt
            /\ store' = store /\ tableExists' = tableExists
       /\ ModifyStart(i, "throw") =>
            /\ out'[i] = Rejected("modify", makeError(0, "ModifierThrew"))
            /\ mod'[i].pc = "idle"
            /\ cnt'[i] = [NoCnt EXCEPT !.modifier = 1]
       /\ (ModifyWrite(i, FALSE) /\ mod'[i].pc = "updating" /\ ~Exists(i)) =>
            mod'[i].resp.err = makeError(404, "ResourceNotFound")]_vars

\* a modify of a removed record has failed with ResourceNotFound after one
\* modifier invocation and one write
C6_Witness ==
  \E i \in Inst :
    /\ out[i] = Rejected("modify", makeError(404, "ResourceNotFound"))
    /\ cnt[i] = [NoCnt EXCEPT !.modifier = 1, !.update = 1]
    /\ tableExists /\ ~Exists(i)

\* C7: a reload of an existing record makes the instance's properties, version
\* and ETag those of the stored record and returns whether the fetched ETag
\* differs from the cached one: false when the cached ETag is still the stored one
C7_ReloadRefreshes ==
  [][\A i \in Inst :
       (out'[i].op = "reload" /\ Exists(i) /\ Reload(i, FALSE)) =>
         /\ inst'[i].properties = deserialize(Stored(i))
         /\ inst'[i].version = Stored(i).Version
         /\ inst'[i].etag = entityEtag(Stored(i))
         /\ out'[i] = Resolved("reload", entityEtag(Stored(i)) # inst[i].etag)
         /\ store' = store
         /\ inst[i].etag = entityEtag(Stored(i)) => out'[i] = Resolved("reload", FALSE)]_vars

\* a reload has returned true and shows what another instance's modify wrote
C7_Witness ==
  \E i, j \in Inst :
    /\ i # j
    /\ out[i] = Resolved("reload", TRUE)
    /\ out[j] = Resolved("modify", TRUE)
    /\ inst[i].properties = inst[j].properties
    /\ inst[i].etag = inst[j].etag

\* C8: create for a key that has a record fails with EntityAlreadyExists (409)
\* and leaves the table as it was when overwriteIfExists is false; when it is
\* true it succeeds, the record holds the new properties and a load returns them
C8_CreateOnExisting ==
  [][\A i \in Inst, p \in CreateProps, o \in BOOLEAN :
       (/\ ret'.op = "create" /\ ret'.flag = o
        /\ tableExists /\ store[KeyOfProps(p)] # NoRec
        /\ Create(i, p, o, CurrentVersion, FALSE))
       => IF o
          THEN /\ ret'.state = "resolved"
               /\ deserialize(store'[KeyOfProps(p)]) = p
               /\ LET a == getEntity(store', ts', tableExists',
                                     PartitionKeyExact(p), RowKeyExact(p))
                  IN a.ok /\ Entity(a.entity, a.etag).properties = p
          ELSE /\ ret'.state = "rejected"
               /\ ret'.err = makeError(409, "EntityAlreadyExists")
               /\ store' = store]_vars

\* a create with overwriteIfExists has replaced an existing record
C8_Witness ==
  /\ ret.op = "create" /\ ret.existed /\ ret.flag /\ ret.state = "resolved"
  /\ \E i \in Inst : ret.inst = i /\ Exists(i) /\ deserialize(Stored(i)) = inst[i].properties

\* C9: a load of a key without a record is rejected with ResourceNotFound (404)
\* when ignoreIfNotExists is false and resolves to null when it is true; a load
\* that fails otherwise is rejected with that error whatever the flag
C9_LoadMissing ==
  [][\A i \in Inst, p \in KeyProps, g \in BOOLEAN :
       /\ (/\ ret'.op = "load" /\ ret'.flag = g
           /\ ~tableExists \/ store[KeyOfProps(p)] = NoRec
           /\ Load(i, p, g, FALSE)) =>
            /\ inst' = inst
            /\ IF g
               THEN ret'.state = "resolved" /\ ret'.inst = 0 /\ ret'.err = NoError
               ELSE ret'.state = "rejected" /\ ret'.err = makeError(404, "ResourceNotFound")
       /\ (ret'.op = "load" /\ ret'.flag = g /\ Load(i, p, g, TRUE)) =>
            /\ inst' = inst
            /\ ret'.state = "rejected" /\ ret'.err = makeError(0, "RequestTimeout")]_vars

\* a load of a missing key with ignoreIfNotExists has resolved to null
C9_Witness ==
  /\ ret.op = "load" /\ ret.flag /\ ~ret.existed
  /\ ret.state = "resolved" /\ ret.inst = 0 /\ tableExists

\* C10: remove() of an instance whose record exists deletes it when ignoreChanges
\* is true or the stored ETag is the cached one; otherwise it is rejected with
\* UpdateConditionNotSatisfied (412) and the table is left as it was
C10_ConditionalRemove ==
  [][\A i \in Inst, c \in BOOLEAN, g \in BOOLEAN :
       (out'[i].op = "remove" /\ Exists(i) /\ Remove(i, c, g, FALSE)) =>
         IF c \/ entityEtag(Stored(i)) = inst[i].etag
         THEN /\ store' = [store EXCEPT ![KeyOf(i)] = NoRec]
              /\ out'[i].state = "resolved"
         ELSE /\ store' = store
              /\ out'[i] = Rejected("remove", makeError(412, "UpdateConditionNotSatisfied"))]_vars

\* a remove() has been rejected because the record changed, and the record is there
C10_Witness ==
  \E i \in Inst :
    /\ out[i] = Rejected("remove", makeError(412, "UpdateConditionNotSatisfied"))
    /\ Exists(i) /\ entityEtag(Stored(i)) # inst[i].etag

\* C11: ensureTable() called while the table exists resolves, the table still
\* exists and every stored record is left as it was
C11_EnsureTableIdempotent ==
  [][(ret'.op = "ensureTable" /\ tableExists /\ EnsureTable(FALSE)) =>
       /\ ret'.state = "resolved"
       /\ tableExists'
       /\ store' = store]_vars

\* ensureTable() has resolved on a table that existed and holds a record
C11_Witness ==
  /\ ret.op = "ensureTable" /\ ret.existed /\ ret.state = "resolved"
  /\ tableExists
  /\ \E s \in Slots : store[s] # NoRec

\* ---- what the chain of configure calls behind a class declared
Versions(class) == class.__deserialize
SomeVersionSigned(class) ==
  \E v \in DOMAIN Versions(class) : Versions(class)[v].sign
SomeVersionEncrypted(class) ==
  \E v \in DOMAIN Versions(class), p \in PropertyNames :
    isEncrypted(Versions(class)[v].mapping[p])
KeyCovered(class) ==
  covers(class.__partitionKeyDefinition) \cup covers(class.__rowKeyDefinition)
Configured == call.op = "configure" /\ call.threw = ""
HasSetup   == call.op = "setup" /\ call.threw = ""

\* C12: a configure call returns a class only when its version is the parent's
\* version plus one (1 on Entity itself), so a class of version n stands at the
\* end of a chain of versions 1, 2, .., n; a call with any other version throws
\* and the definer is left with the class it had
C12_VersionsGrowByOne ==
  /\ Len(Versions(Class)) = Class.__version
  /\ call.op = "configure" =>
       /\ call.threw = "" =>
            /\ call.options.version = call.Parent.__version + 1
            /\ Class.__version = call.options.version
       /\ call.options.version # call.Parent.__version + 1 =>
            /\ call.threw # ""
            /\ Class = call.Parent

\* a configure call on a class of version 1 has asked for version 3 and thrown
C12_Witness ==
  /\ call.op = "configure"
  /\ call.Parent.__version = 1 /\ call.options.version = 3
  /\ call.threw = "version must be incremented by 1 (and only 1)"
  /\ Class = call.Parent

\* C13: a configure call for a version above 1 returns a class only when it
\* passes neither partitionKey nor rowKey and declares every property the keys
\* of version 1 cover with the Type version 1 gave it; so in every version of a
\* chain those properties have their version-1 Types
C13_KeyPropertiesLocked ==
  /\ \A v \in DOMAIN Versions(Class), p \in KeyCovered(Class) :
       /\ Versions(Class)[v].mapping[p] # "undefined"
       /\ Versions(Class)[v].mapping[p] = Versions(Class)[1].mapping[p]
  /\ (Configured /\ call.options.version > 1) =>
       /\ call.options.partitionKey = NoKey
       /\ call.options.rowKey = NoKey
       /\ Class.__partitionKeyDefinition = call.Parent.__partitionKeyDefinition
       /\ Class.__rowKeyDefinition = call.Parent.__rowKeyDefinition

\* a configure call for version 2 has declared a key property with another Type
\* and thrown
C13_Witness ==
  /\ call.op = "configure" /\ call.options.version = 2 /\ call.Parent.__version = 1
  /\ \E p \in KeyCovered(call.Parent) :
       /\ call.options.properties[p] # "undefined"
       /\ call.options.properties[p] # call.Parent.__mapping[p]
  /\ call.threw # ""
  /\ Class = call.Parent

\* C14: on a class with a signed version in its chain, a configure call whose
\* signEntities is not a boolean throws; one whose signEntities is true or false
\* is not refused for it
C14_SignEntitiesExplicit ==
  (call.op = "configure" /\ SomeVersionSigned(call.Parent)) =>
    IF typeof(call.options.signEntities) = "boolean"
    THEN call.threw # "newer versions MUST specify signEntities explicitly"
    ELSE /\ call.threw = "newer versions MUST specify signEntities explicitly"
         /\ Class = call.Parent

\* the first version signs, the second says signEntities: false, and the configure
\* call for the third, which does not say, has thrown
C14_Witness ==
  /\ call.op = "configure" /\ call.options.version = 3
  /\ Len(Versions(call.Parent)) = 2
  /\ Versions(call.Parent)[1].sign /\ ~Versions(call.Parent)[2].sign
  /\ call.options.signEntities = Undefined
  /\ call.threw # ""

\* C15: a setup call returns a class only when a signingKey is given exactly
\* when some version of the chain set signEntities: true
C15_SigningKeyIffSigned ==
  HasSetup => (Truthy(call.options.signingKey) <=> SomeVersionSigned(call.Parent))

\* C16: a setup call returns a class only when a cryptoKey is given exactly
\* when some version of the chain declared an encrypted property, and then only
\* when the key decodes from base64 to 32 bytes
C16_CryptoKeyIffEncrypted ==
  HasSetup =>
    /\ Truthy(call.options.cryptoKey) <=> SomeVersionEncrypted(call.Parent)
    /\ SomeVersionEncrypted(call.Parent) =>
         /\ typeof(call.options.cryptoKey) = "string"
         /\ base64Length(call.options.cryptoKey.value) = 32
         /\ Class.__cryptoKey = call.options.cryptoKey

\* a class whose first version has an encrypted property and whose last version
\* has none has been set up with a key of 32 bytes
C16_Witness ==
  /\ HasSetup
  /\ Len(Versions(call.Parent)) > 1
  /\ \E p \in PropertyNames : isEncrypted(Versions(call.Parent)[1].mapping[p])
  /\ \A p \in PropertyNames : ~isEncrypted(call.Parent.__mapping[p])
  /\ call.options.cryptoKey = Str(ENCRYPTION_KEY)

\* C17: the context keys a class asks for are those its last configure call
\* declared, and a setup call returns a class only when the keys of its context
\* are exactly those
C17_ContextOfLastConfigure ==
  /\ Configured => Class.__context = call.options.context
  /\ HasSetup =>
       /\ call.Parent.__context = call.options.context
       /\ Class.context = call.options.context

\* a class of a later version whose last configure call declared one context
\* key has been set up with exactly that key
C17_Witness ==
  /\ HasSetup
  /\ Class.__version > 1
  /\ call.Parent.__context = {"maxCount"}
  /\ call.options.context = {"maxCount"}

\* C18: every configure and setup call on a class that setup returned throws
\* and leaves the definer with that class
C18_SetupIsFinal ==
  (call.op \in {"configure", "setup"} /\ call.Parent.__table # Undefined) =>
    /\ call.threw # ""
    /\ Class = call.Parent

\* a configure call with the right next version has thrown on a class set up on
\* the in-memory backend
C18_Witness ==
  /\ call.op = "configure"
  /\ call.Parent.__client = Str("inMemory")
  /\ call.options.version = call.Parent.__version + 1
  /\ call.options = BaseOptions(call.options.version)
  /\ call.threw = "This Entity subclass is already setup!"

\* ---- what a read through the versions has to give
\* migrate_n(.. migrate_(v+1)(deserialize_v(entity)) ..) for the versions the
\* class declared, v being the version the entity is stored at
RECURSIVE MigratedUpTo(_, _, _)
MigratedUpTo(class, n, entity) ==
  IF n <= entity.Version
  THEN Deserialized(Versions(class)[n].mapping, entity)
  ELSE Migrate(Versions(class)[n].migrate, MigratedUpTo(class, n - 1, entity))
\* the versions v+1, .., n in ascending order
VersionsAfter(v, n) == [i \in 1..(n - v) |-> v + i]
SlotOf(item) == makeKey(item._partitionKey, item._rowKey)

\* C19: a load, a reload or a scan writes nothing (the table, its records and
\* their Version are after the call what they were before it), and when it
\* resolves for a record stored at version v through a class of version n, the
\* instance holds migrate_n(..migrate_(v+1)(deserialize_v(record))..): the
\* migrations of the versions v+1, .., n ran once each, in ascending order
C19_MigrationOnRead ==
  [][got'.op \in {"load", "reload", "scan"} =>
       /\ store' = store /\ ts' = ts /\ tableExists' = tableExists
       /\ (got'.op \in {"load", "reload"} /\ got'.state = "resolved") =>
            LET class == ClassOf(got'.Class) IN
            /\ got'.entity = store[SlotOf(held')]
            /\ held'._version = got'.entity.Version
            /\ held'._properties =
                 MigratedUpTo(class, class.__version, got'.entity)
            /\ got'.migrated = VersionsAfter(got'.entity.Version, class.__version)
       /\ (got'.op = "scan" /\ got'.state = "resolved") =>
            /\ {SlotOf(item) : item \in got'.entries} =
                 {x \in Slots : store[x] # NoRec}
            /\ \A item \in got'.entries :
                 LET class == ClassOf(got'.Class) IN
                 /\ item._version = store[SlotOf(item)].Version
                 /\ item._properties =
                      MigratedUpTo(class, class.__version, store[SlotOf(item)])
  ]_vars
\* a record stored at version 1 was loaded through a class of version 3: the
\* migrations of version 2 and of version 3 ran, the record is still version 1
C19_Witness ==
  /\ got.op = "load" /\ got.state = "resolved"
  /\ got.entity.Version = 1
  /\ ClassOf(got.Class).__version = 3
  /\ got.migrated = <<2, 3>>
  /\ held.loaded /\ held._version = 1
  /\ store[SlotOf(held)].Version = 1

\* the signing key a stored record was written with (an HMAC under one key is
\* taken to differ from the HMAC of the same values under another key)
WrittenWith(entity) == entity.Signature[1]

\* C20: when load finds a record whose stored version was configured with
\* signEntities true, and the class was set up with another signing key than
\* the one the record was written with, the load is rejected with 'Signature
\* validation failed!' and the caller gets no instance; the same when the class
\* is of a later version than the record: no migration has run by then
C20_WrongSigningKeyRejected ==
  [][(/\ got'.op = "load"
      /\ got'.entity # NoRec
      /\ got'.entity.Version <= ClassOf(got'.Class).__version
      /\ Versions(ClassOf(got'.Class))[got'.entity.Version].sign
      /\ ClassOf(got'.Class).__signingKey.value # WrittenWith(got'.entity))
     => /\ got'.state = "rejected"
        /\ got'.err = "Signature validation failed!"
        /\ got'.migrated = <<>>
        /\ held' = held
        /\ store' = store
  ]_vars
\* a record signed at version 1 was loaded through the class of version 3 set
\* up with another signing key, and the load was rejected for its signature
C20_Witness ==
  /\ got.op = "load" /\ got.state = "rejected"
  /\ got.err = "Signature validation failed!"
  /\ got.entity.Version = 1
  /\ got.entity.Signature # NoSignature
  /\ ClassOf(got.Class).__version = 3
  /\ ClassOf(got.Class).__signingKey.value # WrittenWith(got.entity)

\* C25: a token made from two key strings of which one at least is not empty
\* decodes to those two strings, holds one '~' and matches
\* Entity.continuationTokenPattern; from two missing (or empty) keys
\* encodeContinuationToken makes null
C25_TokenRoundTrip ==
  LET given == tok.result IN
  /\ (Falsy(given.nextPartitionKey) /\ Falsy(given.nextRowKey)) => tok.token = Null
  /\ (/\ given.nextPartitionKey # Absent /\ given.nextRowKey # Absent
      /\ ~(given.nextPartitionKey = <<>> /\ given.nextRowKey = <<>>))
     => /\ tok.token # Null
        /\ Cardinality({i \in 1..Len(tok.token) : tok.token[i] = "~"}) = 1
        /\ continuationTokenPattern(tok.token)
        /\ tok.decoded # NotDecoded => tok.decoded = given
\* a token was made from a partition key holding '~' and '%' and from an empty
\* row key, and was decoded
C25_Witness ==
  /\ tok.result.nextPartitionKey = <<"~", "%">>
  /\ tok.result.nextRowKey = <<>>
  /\ tok.decoded = tok.result

\* ---- what a scan has to give
\* the records of the table that pass the filter of the scanner's call
Matching == {k \in Slots : store[k] # NoRec /\ filterFunctionFor(scn.filter, store[k])}
NoDuplicates(keys) ==
  \A i \in 1..Len(keys), j \in 1..Len(keys) : keys[i] = keys[j] => i = j
Range(keys) == {keys[i] : i \in 1..Len(keys)}
IsEquality(condition) == condition.operator \in {"literal", "=="}

C23_PagesCoverOnce ==
  (/\ scn.op # "none" /\ ~scn.options.handler
   /\ scn.state = "resolved" /\ scn.continuation = Null
   /\ ~scn.written)
  => /\ NoDuplicates(scn.seen)
     /\ Range(scn.seen) = Matching
\* three records were scanned with limit 1 over three pages
C23_Witness ==
  /\ scn.op = "scan" /\ ~scn.options.handler
  /\ scn.options.limit = 1
  /\ scn.state = "resolved" /\ scn.continuation = Null
  /\ ~scn.written
  /\ Len(scn.seen) = 3
  /\ scn.queries = 1

\* C24: when a scan with a handler has resolved, over a table nobody wrote
\* meanwhile, the handler has been called once for every matching record of
\* every page; and whenever it has resolved no handler is still running
C24_HandlerOncePerRecord ==
  (scn.options.handler /\ scn.state = "resolved")
  => /\ scn.pending = {}
     /\ ~scn.written => /\ NoDuplicates(scn.handled)
                        /\ Range(scn.handled) = Matching
\* a scan with a handler and limit 1 went through three pages and resolved
C24_Witness ==
  /\ scn.options.handler /\ scn.options.limit = 1
  /\ scn.state = "resolved"
  /\ ~scn.written
  /\ Len(scn.handled) = 3
  /\ scn.queries = 3

\* the place of a row key among the row keys of the model, in string order
RowKeyRank(rowKey) == CASE rowKey = "m" -> 1 [] rowKey = "n" -> 2 [] OTHER -> 0

\* C26: the entries a query of one partition resolves with are in ascending
\* RowKey order, whatever the order the records were created in
C26_AscendingRowKeys ==
  (scn.op = "query" /\ scn.state = "resolved") =>
    \A i \in 1..Len(scn.entries), j \in 1..Len(scn.entries) :
      i < j => RowKeyRank(scn.entries[i].rowKey) < RowKeyRank(scn.entries[j].rowKey)

\* C27: every write of a racing modify that the backend accepts stores the
\* modifier applied to the properties the stored record had immediately before
\* that write, on a first attempt and on every attempt after a conflict
C27_AcceptedWriteIsSerial ==
  [][\A i \in Racers :
       (/\ mod'[i].pc = "updating"
        /\ ModifyWrite(i, FALSE)
        /\ mod'[i].resp.ok)
       => /\ Stored(i) # NoRec
          /\ deserialize(store'[KeyOf(i)]) =
               Modify(mod[i].modifier, deserialize(Stored(i)))]_vars

\* a racer whose write was rejected has reloaded, run its modifier again and
\* had the second write accepted after another racer's write
C27_Witness ==
  \E i \in Racers :
    /\ cnt[i].conflict >= 1
    /\ cnt[i].modifier >= 2
    /\ Accepted(i)
    /\ deserialize(Stored(i)).count # race.initial + 1

\* the call of racer i has failed with the congestion error
Congested(i) == out[i].state = "rejected" /\ out[i].err.code = "EntityWriteCongestionError"

\* the property bag racer i held when it called modify: the record the race
\* started from
CalledWith(i) == [inst[i].properties EXCEPT !.count = race.initial]

\* C28 (as stated): the congestion error carries as originalEntity the bag the
\* instance held when modify was called, as modifiedEntityAttempts the modified
\* bag of each of the MAX_MODIFY_ATTEMPTS attempts, and as table the table name
C28_ErrorCarriesCallState ==
  \A i \in Racers :
    Congested(i) =>
      /\ out[i].err.originalEntity = CalledWith(i)
      /\ Len(out[i].err.modifiedEntityAttempts) = MAX_MODIFY_ATTEMPTS
      /\ out[i].err.table = Str("items")

\* C28 (amended): the congestion error carries as originalEntity the bag reloaded
\* for the last attempt, which the instance holds again after the failure, as
\* modifiedEntity that attempt's modified bag, as modifiedEntityAttempts the
\* modified bags of the MAX_MODIFY_ATTEMPTS - 1 attempts before it, the first
\* of them made from the bag held at the call, and as table the table name
C28_ErrorCarriesLastAttempt ==
  \A i \in Racers :
    Congested(i) =>
      LET err == out[i].err IN
      /\ err.originalEntity = inst[i].properties
      /\ err.modifiedEntity = Modify("inc", err.originalEntity)
      /\ Len(err.modifiedEntityAttempts) = MAX_MODIFY_ATTEMPTS - 1
      /\ err.modifiedEntityAttempts[1] = Modify("inc", CalledWith(i))
      /\ \A n \in 1..(MAX_MODIFY_ATTEMPTS - 2) :
           err.modifiedEntityAttempts[n].count < err.modifiedEntityAttempts[n + 1].count
      /\ err.modifiedEntityAttempts[MAX_MODIFY_ATTEMPTS - 1].count < err.modifiedEntity.count
      /\ err.originalEntity.count >= race.initial + MAX_MODIFY_ATTEMPTS - 1
      /\ err.table = Str("items")

\* a racer has given up, and its error's originalEntity is not the bag it held
\* when it called modify
C28_Witness ==
  \E i \in Racers :
    /\ Congested(i)
    /\ cnt[i].conflict = MAX_MODIFY_ATTEMPTS
    /\ out[i].err.originalEntity # CalledWith(i)
    /\ out[i].err.table = Class.__table

\* C29 (as stated): a modify attempt that fails leaves the instance with the
\* properties, ETag and version snapshotted at the start of that attempt; a call
\* that fails on its first attempt, whether its modifier throws, rejects or
\* changes a key or its write is refused, leaves the instance as it was before
\* the call
C29_FailedAttemptRestores ==
  [][\A i \in Inst :
       /\ (/\ out'[i].state = "rejected"
           /\ \E m \in Modifiers : ModifyStart(i, m))
          => inst'[i] = inst[i]
       /\ (/\ mod[i].pc \in {"modifying", "updating"}
           /\ out'[i].state = "rejected" \/ mod'[i].pc = "reloading"
           /\ \E f \in BOOLEAN : ModifyWrite(i, f) \/ ModifyUpdated(i, f))
          => /\ inst'[i].properties = mod[i].properties
             /\ inst'[i].etag = mod[i].eTag
             /\ inst'[i].version = mod[i].version
             /\ cnt[i].modifier = 1 /\ out'[i].state = "rejected" =>
                  inst'[i] = [inst[i] EXCEPT !.properties = mod[i].properties]]_vars

\* C30: when the modifier of an instance loaded from a record of an older
\* schema version has returned without touching the keys, the attempt issues
\* an update even when the modifier changed nothing; the update is conditional
\* on the instance's ETag, and when the backend accepts it the stored record is
\* replaced by exactly the serialized properties of the current schema with the
\* keys and Version = the current schema version
C30_UpgradeReplacesAll ==
  [][\A i \in Inst, f \in BOOLEAN :
       (/\ mod[i].pc = "modifying"
        /\ inst[i].version < CurrentVersion
        /\ mod[i].modifier # "reject"
        /\ KeysKept(inst[i])
        /\ ModifyWrite(i, f))
       => /\ mod'[i].pc = "updating"
          /\ cnt'[i].update = cnt[i].update + 1
          /\ (Exists(i) /\ inst[i].etag # entityEtag(Stored(i)) /\ ~f) =>
               /\ mod'[i].resp.err = makeError(412, "UpdateConditionNotSatisfied")
               /\ store' = store
          /\ mod'[i].resp.ok =>
               /\ Exists(i) => inst[i].etag = entityEtag(Stored(i))
               /\ store'[KeyOf(i)] =
                    OnlyCols([serialize(inst[i].properties, CurrentVersion) EXCEPT
                                !.PartitionKey = inst[i].partitionKey,
                                !.RowKey       = inst[i].rowKey],
                             SerializedCols(CurrentVersion))
               /\ store'[KeyOf(i)].Version = CurrentVersion
               /\ deserialize(store'[KeyOf(i)]) = inst[i].properties]_vars

\* the write of a modify whose modifier changed nothing has been accepted for an
\* instance of version 1, and the stored record is of the current version
C30_Witness ==
  \E i \in Inst :
    /\ Accepted(i)
    /\ mod[i].modifier = "noop"
    /\ mod[i].version < CurrentVersion
    /\ inst[i].properties = mod[i].properties
    /\ cnt[i].update = 1
    /\ Stored(i).Version = CurrentVersion

\* C31 (as stated): when the write of a modify has been accepted and the call
\* succeeds, the instance's cached version is the Version of the record it
\* wrote: the current schema version, also for an instance loaded from a
\* record of an older version
C31_VersionFollowsWrite ==
  [][\A i \in Inst, f \in BOOLEAN :
       (/\ mod[i].pc = "updating"
        /\ mod[i].resp.ok
        /\ ModifyUpdated(i, f))
       => /\ out'[i] = Resolved("modify", TRUE)
          /\ inst'[i].etag = mod[i].resp.etag
          /\ inst'[i].version = mod[i].resp.entity.Version
          /\ inst'[i].version = CurrentVersion]_vars

\* C32: with a handler, a page is fetched only when no handler call of an
\* earlier page is still running, so while the handlers of a page run the calls
\* in flight are those of that page alone: at most `limit` of them
C32_HandlersBeforeNextPage ==
  scn.options.handler =>
    /\ scn.state = "fetching" => scn.pending = {}
    /\ scn.state = "handling" =>
         /\ scn.pending \subseteq {InstanceKey(scn.entries[i]) : i \in 1..Len(scn.entries)}
         /\ scn.options.limit # 0 => Cardinality(scn.pending) <= scn.options.limit

\* the handlers of a second page of two records are running, those of the first
\* page having completed
C32_Witness ==
  /\ scn.options.handler
  /\ scn.options.limit = 1
  /\ scn.queries = 2
  /\ scn.state = "handling"
  /\ Len(scn.handled) = 2
  /\ Cardinality(scn.pending) = 1

\* C34 (as stated): updateEntity for a key without a record, on an existing
\* table, inserts the record when no eTag is given; with an eTag, an exact one
\* or '*', it is rejected with ResourceNotFound (404) and the table is left as
\* it was
C34_UpdateOfMissingRecord ==
  [][\A entity \in TableEntities, mode \in {"replace", "merge"}, tag \in TableTags :
       (/\ ret'.op = "updateEntity"
        /\ tableExists
        /\ store[makeKey(entity.PartitionKey, entity.RowKey)] = NoRec
        /\ TableUpdate(entity, mode, TagOf(tag, entity)))
       => IF tag = "none"
          THEN /\ ret'.state = "resolved"
               /\ store' = [store EXCEPT
                              ![makeKey(entity.PartitionKey, entity.RowKey)] = entity]
          ELSE /\ ret'.state = "rejected"
               /\ ret'.err = makeError(404, "ResourceNotFound")
               /\ store' = store]_vars

\* no stored record has the keys of `entity`
NoRecordOf(entity) ==
  \A s \in DOMAIN store :
    store[s] = NoRec \/ store[s].PartitionKey # entity.PartitionKey
                     \/ store[s].RowKey # entity.RowKey

\* the records stored under other keys than those of `entity`
OthersOf(st, entity) ==
  {st[s] : s \in {x \in DOMAIN st :
                    /\ st[x] # NoRec
                    /\ st[x].PartitionKey # entity.PartitionKey
                       \/ st[x].RowKey # entity.RowKey}}

\* C38 (as stated): makeKey maps different (PartitionKey, RowKey) pairs to
\* different slots, also for keys that hold a '!'; an insert for a pair that
\* has no record succeeds, and an insert, update or delete leaves every record
\* stored under another pair as it was
C38_SlotsAreDisjoint ==
  [][\A entity \in TableEntities :
       /\ \A other \in TableEntities :
            makeKey(entity.PartitionKey, entity.RowKey) =
              makeKey(other.PartitionKey, other.RowKey)
            => /\ entity.PartitionKey = other.PartitionKey
               /\ entity.RowKey = other.RowKey
       /\ (/\ ret'.op = "insertEntity"
           /\ tableExists /\ NoRecordOf(entity)
           /\ TableInsert(entity))
          => ret'.state = "resolved"
       /\ (\/ TableInsert(entity)
           \/ \E mode \in {"replace", "merge"}, tag \in TableTags :
                TableUpdate(entity, mode, TagOf(tag, entity))
           \/ \E tag \in TableTags :
                TableDelete(entity.PartitionKey, entity.RowKey, TagOf(tag, entity)))
          => OthersOf(store', entity) = OthersOf(store, entity)]_vars

\* the stored records the scanner's filter matches
MatchingRecords ==
  {k \in DOMAIN store : store[k] # NoRec /\ filterFunctionFor(scn.filter, store[k])}

\* C33 (as stated): a scan without a handler resolves with at most
\* min(limit, 1000) entries, at most 1000 when no limit is given, and with a
\* continuation token whenever matching records remain after its entries
C33_PageIsCapped ==
  (scn.state = "resolved" /\ ~scn.options.handler) =>
    /\ Len(scn.entries) <= (IF scn.options.limit = 0 THEN MaxTop
                            ELSE Top(scn.options.limit))
    /\ Len(scn.seen) < Cardinality(MatchingRecords) => scn.continuation # Null

\* C35 (as stated): when a modifier that leaves the live property bag untouched
\* and returns a replacement bag has returned, modify writes the returned bag
\* and the instance holds it when the call has succeeded
C35_ReturnedBagIsPersisted ==
  [][\A i \in Inst :
       (/\ mod[i].pc = "modifying"
        /\ mod[i].modifier = "replace"
        /\ Exists(i) /\ inst[i].etag = entityEtag(Stored(i))
        /\ ModifyWrite(i, FALSE))
       => /\ cnt'[i].update = cnt[i].update + 1
          /\ deserialize(store'[KeyOf(i)]) = Returned("replace", mod[i].properties)
          /\ out'[i].state = "resolved" =>
               inst'[i].properties = Returned("replace", mod[i].properties)]_vars

\* C35 (amended): the bag such a modifier returns is dropped.  For an instance
\* of the current schema version the attempt finds no change: the call succeeds
\* without a write, and the stored record and the instance are as before the
\* call; for an instance of an older version the write carries the instance's
\* own properties, not the returned ones
C35_ReturnedBagIsDropped ==
  [][\A i \in Inst, f \in BOOLEAN :
       (/\ mod[i].pc = "modifying"
        /\ mod[i].modifier = "replace"
        /\ ModifyWrite(i, f))
       => /\ inst'[i] = inst[i]
          /\ inst[i].properties = mod[i].properties
          /\ SameVersion(inst[i]) =>
               /\ out'[i] = Resolved("modify", FALSE)
               /\ cnt' = cnt
               /\ store' = store
          /\ (~SameVersion(inst[i]) /\ mod'[i].resp.ok) =>
               deserialize(store'[KeyOf(i)]) = inst[i].properties]_vars

\* the modifier of a modify on an unchanged record of the current version has
\* returned a replacement bag and left the live bag as it was
C35_Witness ==
  \E i \in Inst :
    /\ mod[i].pc = "modifying"
    /\ mod[i].modifier = "replace"
    /\ SameVersion(inst[i])
    /\ Returned(mod[i].modifier, mod[i].properties) # inst[i].properties
    /\ inst[i].properties = mod[i].properties
    /\ Exists(i) /\ inst[i].etag = entityEtag(Stored(i))

\* C36: a modify call that has been made settles, with success, with the error
\* of a write or reload or with the congestion error, however often the writer
\* changes the record, when every promise the call waits for is settled
C36_ModifySettles == (out[1].state = "pending") ~> Settled(1)

\* the one call has given up after MAX_MODIFY_ATTEMPTS conflicts with the writer
C36_Witness ==
  /\ race.k = 1
  /\ Congested(1)
  /\ cnt[1].conflict = MAX_MODIFY_ATTEMPTS
  /\ mod[1].pc = "idle"


\* C37: under a schema version that signs its entities, every stored record of
\* that version carries the signature of the property values stored with it,
\* so that deserializing it with the same signing key does not fail the
\* signature validation, whatever creates and modifies came before
C37_StoredSignatureIsValid ==
  \A k \in DOMAIN store :
    (Class.__sign /\ store[k] # NoRec /\ store[k].Version = CurrentVersion)
      => __deserialize(Class, CurrentVersion, store[k]).threw = ""


\* C39: a scan without a handler whose continuations the caller followed to
\* the page that carries none has given every record that matches the
\* conditions and was in the table, unchanged, from the first call to the last
\* page, whatever other callers created or removed between the pages
C39_StableRecordsAreReturned ==
  (/\ scn.op # "none" /\ ~scn.options.handler
   /\ scn.state = "resolved" /\ scn.continuation = Null)
  => (scn.stable \cap Matching) \subseteq Range(scn.seen)


====
